---- MODULE Spec2Model ----
(***************************************************************************)
(* A model of pphilfre/cligame: the world graph of src/main.py             *)
(* (Game.discover_new_room, Game.generate_procedural_room,                 *)
(* Game.create_initial_rooms, Game.update_room_visits) and the enemy state *)
(* machine of src/enemies.py (Enemy.take_damage, Enemy.update_behavior,    *)
(* Enemy.update_movement).                                                 *)
(*                                                                         *)
(* A room name is the pair <<base, suffix>>: a generated room is named     *)
(* f"{base} {room_id[-3:]}", the hand-built rooms carry NoSuffix.  Two     *)
(* names are the same string exactly when the pairs are equal.             *)
(* Items and NPCs of a room are not part of the model.                     *)
(***************************************************************************)
EXTENDS Integers, Sequences, FiniteSets, TLC

VARIABLES
    rooms,              \* Game.rooms: name -> [room_type, difficulty_level, visited, exits]
    room_id_counter,    \* Game.room_id_counter
    discovered_exits,   \* Game.discovered_exits: <<name, direction>> -> <<target, direction>>
    last_call,          \* the last discover_new_room call: arguments, result, whether it generated
    gen_log,            \* difficulty_level given to each generated room, in generation order
    op,                 \* the operation that produced the current state
    enemy,              \* the fields of one Enemy (src/enemies.py)
    in_room,            \* whether the enemy is in its Room's enemy list
    player_rect,        \* the player's bounding box handed to the enemy each tick
    player_health,      \* Player.health
    walls,              \* the wall rectangles behind wall_check_func
    attacking,          \* what the last update_movement call returned
    phase,              \* the call of the tick that comes next: "behavior" or "movement"
    tick,               \* completed ticks
    hits,               \* take_damage calls so far
    since_flee,         \* completed ticks since take_damage switched to FLEE, -1 outside that window
    overridden,         \* whether the stuck branch of update_behavior ran in that window
    player,             \* Game.player: "None" or "Player"
    state,              \* Game.state, a GameState name
    last_load,          \* the last load_game call: the kind of save file and the value returned
    layout,             \* the Room under construction: size, room_type, grid, outcome
    grids,              \* Room.grid of the rooms of Game.rooms: name -> grid
    npc                 \* an NPC: the arguments it was built with, the object, its restored copy

world_vars == <<rooms, room_id_counter, discovered_exits, last_call, gen_log>>
enemy_vars == <<enemy, in_room, player_rect, player_health, walls, attacking, phase, tick,
                hits, since_flee, overridden>>
game_vars == <<player, state, last_load>>
room_vars == <<layout, grids>>
vars == <<rooms, room_id_counter, discovered_exits, last_call, gen_log, op,
          enemy, in_room, player_rect, player_health, walls, attacking, phase, tick,
          hits, since_flee, overridden, player, state, last_load, layout, grids, npc>>

----------------------------------------------------------------------------
(* Constants of src/main.py *)

SCREEN_WIDTH == 1200
SCREEN_HEIGHT == 800
TILE_SIZE == 32
GRID_WIDTH == SCREEN_WIDTH \div TILE_SIZE
GRID_HEIGHT == SCREEN_HEIGHT \div TILE_SIZE
InitialRoomId == 1000
MaxDifficulty == 10
DifficultyStep == 5
SuffixModulus == 1000

(* Bounds of the model *)
MaxGen == 2          \* generated rooms in Spec
MaxWalk == 50        \* generated rooms in SpecWalk
MaxLate == 2         \* rooms generated in SpecLate after the first thousand
MaxTicks == 66       \* ticks of SpecEnemy
MaxChase == 40       \* ticks of SpecGoblin
MaxHitTick == 3      \* take_damage is called before this many ticks are over
MaxHits == 1         \* take_damage calls
MaxLoadGen == 1      \* rooms generated in SpecLoad, over all worlds
MaxTileGen == 1      \* rooms generated in SpecTiles
MaxSlide == 13       \* ticks of SpecSlide

Directions == {"north", "south", "east", "west"}

opposite_directions ==
    [d \in Directions |->
        CASE d = "north" -> "south"
          [] d = "south" -> "north"
          [] d = "east" -> "west"
          [] d = "west" -> "east"]

NoSuffix == -1
NoName == <<"", NoSuffix>>
NoType == ""

HandBuilt(base) == <<base, NoSuffix>>

\* f with f[k] set to v, k added to the domain when it is not in it (a dict store)
Put(f, k, v) == (k :> v) @@ f

----------------------------------------------------------------------------
(* src/main.py: TileType, Room.grid and the writes of the generators *)

FLOOR == 0
WALL == 1
EXIT == 2
WATER == 3
CHEST == 4

Min(a, b) == IF a <= b THEN a ELSE b
Max(a, b) == IF a > b THEN a ELSE b
Abs(n) == IF n < 0 THEN -n ELSE n

Shift(c, o) == <<c[1] + o[1], c[2] + o[2]>>

\* random.randint(lo, hi) raises ValueError when lo > hi; otherwise every value
\* of lo .. hi is an outcome, and sel picks one (0 the lowest, -1 the highest)
Draw(lo, hi, sel) == lo + (sel % (hi - lo + 1))

\* random.random() < num / den, for the i-th draw of a sequence of draws
Coin(seed, i, num, den) == ((seed + i) % den) < num

\* The random draws of one generator run: four seeds.  The i-th draw of a
\* loop takes its outcome from a seed and i, so that the iterations differ.
DrawSeeds == [a : {0, -1}, b : {0, -1}, c : {0, -1}, d : {0, -1}]

NoGrids == << >>

\* A Room under construction.  raised is the exception that ended the
\* construction ("" for none), oob whether a write used an index outside
\* 0 .. size - 1, reserved the cells add_potential_exits set to EXIT,
\* path_direction the village generator's choice.
NoLayout == [w |-> 0, h |-> 0, room_type |-> "", grid |-> << >>, raised |-> "",
             oob |-> FALSE, reserved |-> {}, path_direction |-> "", made |-> FALSE]

\* m <= x < grid_width - m and m <= y < grid_height - m
Inside(L, c, m) == m <= c[1] /\ c[1] < L.w - m /\ m <= c[2] /\ c[2] < L.h - m

\* self.grid[y][x] = t for every <<x, y>> of cells.  A Python list accepts the
\* indices -len .. len - 1: an index outside them raises IndexError, a negative
\* one writes the cell it counts to from the end of the list.
SetTiles(L, cells, t) ==
    LET indexable(c) == c[1] >= 0 - L.w /\ c[1] < L.w /\ c[2] >= 0 - L.h /\ c[2] < L.h
        wrapped(c) == <<IF c[1] < 0 THEN c[1] + L.w ELSE c[1],
                        IF c[2] < 0 THEN c[2] + L.h ELSE c[2]>>
    IN IF L.raised # "" THEN L
       ELSE IF \E c \in cells : ~indexable(c)
            THEN [L EXCEPT !.raised = "IndexError", !.oob = TRUE]
            ELSE LET hit == {wrapped(c) : c \in cells} IN
                 [L EXCEPT !.grid = [c \in DOMAIN L.grid |-> IF c \in hit THEN t ELSE L.grid[c]],
                           !.oob = @ \/ (\E c \in cells : ~Inside(L, c, 0))]

\* self.grid[y][x] == t, read where the generators read: inside the grid
TileIs(L, c, t) == L.grid[c] = t

\* the outline of a w by h rectangle, as offsets from its corner
Border(w, h) == {o \in (0 .. w - 1) \X (0 .. h - 1) :
                    o[1] = 0 \/ o[1] = w - 1 \/ o[2] = 0 \/ o[2] = h - 1}

\* [(1, 0), (0, 1), (-1, 0), (0, -1)]
Neighbours4 == <<<<1, 0>>, <<0, 1>>, <<-1, 0>>, <<0, -1>>>>

----------------------------------------------------------------------------
(* Room.add_potential_exits *)

\* [int(size * (i+1) / (n+1)) for i in range(n)]
exit_positions(size, n) == {(size * (i + 1)) \div (n + 1) : i \in 0 .. n - 1}

\* num is the record of the four random.randint(2, 3) draws
potential_exits(L, num) ==
    {<<p, 0>> : p \in exit_positions(L.w, num.north)}
    \cup {<<p, L.h - 1>> : p \in exit_positions(L.w, num.south)}
    \cup {<<0, p>> : p \in exit_positions(L.h, num.west)}
    \cup {<<L.w - 1, p>> : p \in exit_positions(L.h, num.east)}

add_potential_exits(L, num) ==
    LET L1 == SetTiles(L, potential_exits(L, num), EXIT)
        edge == {c \in DOMAIN L.grid : ~Inside(L, c, 1)}
        L2 == SetTiles(L1, {c \in edge : ~TileIs(L1, c, EXIT)}, FLOOR)
    IN [L2 EXCEPT !.reserved = potential_exits(L, num)]

\* the draws the specifications enumerate: north and south alike, west and east alike
NumExitChoices == {[north |-> n, south |-> n, west |-> m, east |-> m] : n, m \in {2, 3}}

----------------------------------------------------------------------------
(* Room.generate_generic_features *)

\* dominant_feature == 'pillars'
GenericPillars(L, D) ==
    LET pillar_spacing == Draw(4, 7, D.a)
        \* range(start, stop, pillar_spacing)
        range(start, stop) == {v \in start .. stop - 1 : (v - start) % pillar_spacing = 0}
        sites == range(1 + pillar_spacing, L.w - 2) \X range(1 + pillar_spacing, L.h - 2)
        pillar(c) == <<c[1] + Draw(-1, 1, D.b + c[1]), c[2] + Draw(-1, 1, D.c + c[2])>>
        placed == {p \in {pillar(c) : c \in {s \in sites : Coin(D.d, s[1] + s[2], 4, 5)}} :
                      Inside(L, p, 2)}
        clustered == {p \in placed : Coin(D.d, p[1] * p[2], 3, 10)}
        cluster == <<<<1, 0>>, <<0, 1>>, <<1, 1>>, <<-1, 0>>, <<0, -1>>>>
        members == {m \in {Shift(p[1], cluster[p[2]]) :
                              p \in {q \in clustered \X (1 .. 5) : Coin(D.a, q[2] + q[1][1], 1, 2)}} :
                       Inside(L, m, 2)}
    IN SetTiles(L, placed \cup members, WALL)

\* dominant_feature == 'maze'
GenericMaze(L, D) ==
    LET directions == <<<<0, 1>>, <<1, 0>>, <<0, -1>>, <<-1, 0>>>>
        \* the cells of wall segments i .. 19, the first starting at <<sx, sy>>
        RECURSIVE segments(_, _, _)
        segments(i, sx, sy) ==
            IF i = 20 THEN {}
            ELSE LET wall_length == Draw(3, 8, D.c + i)
                     dir == directions[1 + ((D.d + 3 * i + (i \div 4)) % 4)]
                     segment == {<<sx + dir[1] * k, sy + dir[2] * k>> : k \in 0 .. wall_length - 1}
                     nx == Max(3, Min(L.w - 4, sx + dir[1] * wall_length))
                     ny == Max(3, Min(L.h - 4, sy + dir[2] * wall_length))
                 IN {c \in segment : Inside(L, c, 3)} \cup segments(i + 1, nx, ny)
    IN SetTiles(L, segments(0, 1 + Draw(3, 8, D.a), 1 + Draw(3, 8, D.b)), WALL)

\* dominant_feature == 'chambers'
GenericChambers(L, D) ==
    LET RECURSIVE chambers(_, _, _)
        \* chambers i .. n - 1
        chambers(G, i, n) ==
            IF i = n \/ G.raised # "" THEN G
            ELSE LET chamber_w == Draw(5, 10, D.b + i)
                     chamber_h == Draw(5, 8, D.c + i)
                     x_hi == 1 + (G.w - 2) - chamber_w - 2
                     y_hi == 1 + (G.h - 2) - chamber_h - 2
                 IN IF 3 > x_hi \/ 3 > y_hi THEN [G EXCEPT !.raised = "ValueError"]
                    ELSE LET at == <<Draw(3, x_hi, D.d + i), Draw(3, y_hi, D.d + 2 * i)>>
                             wall_cells ==
                                 {c \in {Shift(at, o) : o \in
                                     {o \in Border(chamber_w, chamber_h) :
                                         ~(o[1] = chamber_w \div 2 /\ o[2] = 0)
                                         /\ ~(o[1] = chamber_w \div 2 /\ o[2] = chamber_h - 1)}} :
                                    c[2] < G.h /\ c[1] < G.w}
                             G1 == SetTiles(G, wall_cells, WALL)
                             feature == (D.a + i) % 3
                             centre == {Shift(at, <<chamber_w \div 2, chamber_h \div 2>>)}
                             G2 == CASE feature = 0 /\ chamber_w > 4 /\ chamber_h > 4 ->
                                            SetTiles(G1, centre, WATER)
                                     [] feature = 1 /\ chamber_w > 4 /\ chamber_h > 4 ->
                                            SetTiles(G1, centre, CHEST)
                                     [] feature = 2 /\ chamber_w > 5 /\ chamber_h > 5 ->
                                            SetTiles(G1, {Shift(at, <<Draw(2, chamber_w - 3, D.a + k),
                                                                      Draw(2, chamber_h - 3, D.b + k)>>) :
                                                             k \in 0 .. 1}, WALL)
                                     [] OTHER -> G1
                         IN chambers(G2, i + 1, n)
    IN chambers(L, 0, Draw(2, 4, D.a))

\* dominant_feature == 'asymmetric'
GenericAsymmetric(L, D, side) ==
    LET room_w == L.w - 2
        room_h == L.h - 2
        feature_h == Draw(4, 8, D.b)
        feature_y == IF side = "north" THEN 1 + Draw(2, 5, D.a)
                     ELSE 1 + room_h - feature_h - Draw(2, 5, D.a)
        feature_x == 1 + Draw(5, room_w - 20, D.c)
        feature_w == Draw(15, room_w - feature_x - 5, D.d)
        door == <<feature_w \div 2, IF side = "north" THEN feature_h - 1 ELSE 0>>
        \* the large wall section of side north or south
        section ==
            IF side \notin {"north", "south"} THEN L
            ELSE IF 5 > room_w - 20 THEN [L EXCEPT !.raised = "ValueError"]
            ELSE IF 15 > room_w - feature_x - 5 THEN [L EXCEPT !.raised = "ValueError"]
            ELSE SetTiles(L, {Shift(<<feature_x, feature_y>>, o) :
                                 o \in Border(feature_w, feature_h) \ {door}}, WALL)
        RECURSIVE natural(_, _, _)
        \* natural features i .. n - 1
        natural(G, i, n) ==
            IF i = n \/ G.raised # "" THEN G
            ELSE IF 3 > G.w - 4 \/ 3 > G.h - 4 THEN [G EXCEPT !.raised = "ValueError"]
            ELSE LET at == <<Draw(3, G.w - 4, D.c + 7 * i), Draw(3, G.h - 4, D.d + 5 * i)>>
                     feature_type == <<WALL, WATER, CHEST>>[1 + ((D.a + i) % 3)]
                 IN natural(IF TileIs(G, at, FLOOR) THEN SetTiles(G, {at}, feature_type) ELSE G,
                            i + 1, n)
    IN natural(section, 0, Draw(8, 15, D.b))

\* the lines a bridge of the island paves, before the bounds test of each cell
Bridge(L, direction, bridge_width) ==
    LET center_x == L.w \div 2
        center_y == L.h \div 2
        across_x == (center_x - bridge_width \div 2) .. (center_x + bridge_width \div 2)
        across_y == (center_y - bridge_width \div 2) .. (center_y + bridge_width \div 2)
    IN CASE direction = "north" -> across_x \X (0 .. center_y - 1)
         [] direction = "south" -> across_x \X (center_y .. L.h - 1)
         [] direction = "west" -> (0 .. center_x - 1) \X across_y
         [] direction = "east" -> (center_x .. L.w - 1) \X across_y

\* dominant_feature == 'island'; bridges is the random.sample of directions
GenericIsland(L, D, bridges) ==
    LET room_w == L.w - 2
        room_h == L.h - 2
        center == <<L.w \div 2, L.h \div 2>>
        water_margin == Draw(3, 6, D.a)
        half == Min(room_w, room_h) \div 2
        ring == {c \in (1 .. room_w) \X (1 .. room_h) :
                    Max(Abs(c[1] - center[1]), Abs(c[2] - center[2])) > half - water_margin}
        L1 == SetTiles(L, ring, WATER)
        bridge_width == Draw(2, 3, D.b)
        paved == {c \in UNION {Bridge(L, direction, bridge_width) : direction \in bridges} :
                     Inside(L, c, 0)}
        L2 == SetTiles(L1, paved, FLOOR)
        island_radius == half - water_margin - 1
        \* int(distance * cos(angle)), int(distance * sin(angle)) for the draws of
        \* angle and of distance in 0 .. island_radius * 0.7: <<0, 0>> and the
        \* offsets shorter than island_radius * 0.7
        offsets == <<<<0, 0>>, <<1, 0>>, <<0, -2>>, <<-1, 1>>, <<2, 1>>>>
        offset(i) ==
            LET o == offsets[1 + (i % 5)] IN
            IF island_radius > 0
               /\ 100 * (o[1] * o[1] + o[2] * o[2]) < 49 * island_radius * island_radius
            THEN o ELSE <<0, 0>>
        RECURSIVE decorations(_, _, _)
        \* decorations i .. n - 1
        decorations(G, i, n) ==
            IF i = n \/ G.raised # "" THEN G
            ELSE LET dec == Shift(center, offset(D.d + i))
                     decoration_type == (D.a + i) % 3
                     around == {m \in {Shift(dec, Neighbours4[j]) :
                                          j \in {k \in 1 .. 4 : Coin(D.b, i + k, 7, 10)}} :
                                   Inside(G, m, 1)}
                     G1 == IF ~Inside(G, dec, 1) THEN G
                           ELSE CASE decoration_type = 0 -> SetTiles(G, {dec}, WALL)
                                  [] decoration_type = 1 -> SetTiles(G, {dec}, CHEST)
                                  [] OTHER -> SetTiles(G, {dec} \cup around, WALL)
                 IN decorations(G1, i + 1, n)
    IN decorations(L2, 0, Draw(3, 7, D.c))

generate_generic_features(L, dominant_feature, side, bridges, D) ==
    LET L1 == CASE dominant_feature = "pillars" -> GenericPillars(L, D)
                [] dominant_feature = "maze" -> GenericMaze(L, D)
                [] dominant_feature = "chambers" -> GenericChambers(L, D)
                [] dominant_feature = "asymmetric" -> GenericAsymmetric(L, D, side)
                [] dominant_feature = "island" -> GenericIsland(L, D, bridges)
        RECURSIVE objects(_, _, _)
        \* the random objects placed whatever the dominant feature: objects i .. n - 1
        objects(G, i, n) ==
            IF i = n \/ G.raised # "" THEN G
            ELSE IF 4 > G.w - 5 \/ 4 > G.h - 5 THEN [G EXCEPT !.raised = "ValueError"]
            ELSE LET obj == <<Draw(4, G.w - 5, D.c + 11 * i), Draw(4, G.h - 5, D.d + 3 * i)>>
                     weight == (D.b + i) % 10
                     around == {m \in {Shift(obj, Neighbours4[j]) :
                                          j \in {k \in 1 .. 4 : Coin(D.d, i + k, 7, 10)}} :
                                   Inside(G, m, 1)}
                     G1 == IF ~TileIs(G, obj, FLOOR) THEN G
                           ELSE CASE weight < 5 -> SetTiles(G, {obj}, WALL)
                                  [] weight >= 5 /\ weight < 8 ->
                                         SetTiles(G, IF Coin(D.c, i, 1, 2) THEN {obj} \cup around
                                                     ELSE {obj}, WATER)
                                  [] weight = 8 -> SetTiles(G, {obj}, CHEST)
                                  [] OTHER -> SetTiles(G, {obj} \cup around, WALL)
                 IN objects(G1, i + 1, n)
    IN objects(L1, 0, Draw(5, 10, D.a))

----------------------------------------------------------------------------
(* Room.generate_village_features *)

path_width == 3

\* <<path_x, path_y>>
VillagePathAt(L) == <<2 + (L.w - 4) \div 2, 2 + (L.h - 4) \div 2>>

generate_village_features(L, path_direction, D) ==
    LET room_w == L.w - 4
        room_h == L.h - 4
        path_x == VillagePathAt(L)[1]
        path_y == VillagePathAt(L)[2]
        \* range(-path_width // 2, path_width // 2 + 1)
        offsets == ((0 - path_width) \div 2) .. (path_width \div 2)
        across == {<<x, path_y + dy>> : x \in 2 .. L.w - 3,
                      dy \in {o \in offsets : 0 <= path_y + o /\ path_y + o < L.h}}
        down == {<<path_x + dx, y>> : y \in 2 .. L.h - 3,
                    dx \in {o \in offsets : 0 <= path_x + o /\ path_x + o < L.w}}
        path == CASE path_direction = "horizontal" -> across
                  [] path_direction = "vertical" -> down
                  [] OTHER -> down \cup across
        L1 == SetTiles(L, path, FLOOR)
        west_w == path_x - 2 - 1
        east_x == path_x + path_width
        east_w == 2 + room_w - path_x - path_width
        north_h == path_y - 2 - 1
        south_y == path_y + path_width
        south_h == 2 + room_h - path_y - path_width
        \* <<zone_x, zone_y, zone_w, zone_h>>
        building_zones ==
            CASE path_direction = "horizontal" ->
                     <<<<2, 2, room_w, north_h>>, <<2, south_y, room_w, south_h>>>>
              [] path_direction = "vertical" ->
                     <<<<2, 2, west_w, room_h>>, <<east_x, 2, east_w, room_h>>>>
              [] OTHER ->
                     <<<<2, 2, west_w, north_h>>, <<east_x, 2, east_w, north_h>>,
                       <<2, south_y, west_w, south_h>>, <<east_x, south_y, east_w, south_h>>>>
        \* one building of a zone: outline, door, internal wall
        building(G, zone, k) ==
            LET zone_x == zone[1]
                zone_y == zone[2]
                zone_w == zone[3]
                zone_h == zone[4]
                building_w == Draw(4, Min(7, zone_w - 2), D.b + k)
                building_h == Draw(3, Min(6, zone_h - 2), D.c + k)
                x_hi == zone_x + zone_w - building_w - 1
                y_hi == zone_y + zone_h - building_h - 1
                building_x == Draw(zone_x + 1, x_hi, D.d + 3 * k)
                building_y == Draw(zone_y + 1, y_hi, D.a + k)
                outline == {c \in {Shift(<<building_x, building_y>>, o) :
                                      o \in Border(building_w, building_h)} :
                               c[2] < G.h /\ c[1] < G.w}
                G1 == SetTiles(G, outline, WALL)
                door_side == (D.b + D.c + k) % 4
                south_door == <<building_x + building_w \div 2, building_y + building_h - 1>>
                door == CASE door_side = 0 /\ building_y > zone_y + 1 ->
                                 <<building_x + building_w \div 2, building_y>>
                          [] door_side = 1 /\ building_y + building_h < zone_y + zone_h - 1 ->
                                 south_door
                          [] door_side = 2 /\ building_x > zone_x + 1 ->
                                 <<building_x, building_y + building_h \div 2>>
                          [] door_side = 3 /\ building_x + building_w < zone_x + zone_w - 1 ->
                                 <<building_x + building_w - 1, building_y + building_h \div 2>>
                          [] OTHER -> south_door
                G2 == IF door[2] < G.h /\ door[1] < G.w THEN SetTiles(G1, {door}, FLOOR) ELSE G1
                wall_x == building_x + building_w \div 2
                internal == {<<wall_x, y>> : y \in
                                {y \in building_y + 1 .. building_y + building_h - 2 :
                                    y < G.h /\ wall_x < G.w /\ Coin(D.d, y, 7, 10)}}
                door_y == building_y + 1 + Draw(1, building_h - 3, D.a)
                G3 == SetTiles(G2, internal, WALL)
            IN IF 4 > Min(7, zone_w - 2) \/ 3 > Min(6, zone_h - 2)
                  \/ zone_x + 1 > x_hi \/ zone_y + 1 > y_hi
               THEN [G EXCEPT !.raised = "ValueError"]
               ELSE IF Coin(D.c, k, 2, 5) /\ building_w > 5 /\ building_h > 4
                    THEN IF door_y < G.h /\ wall_x < G.w
                         THEN SetTiles(G3, {<<wall_x, door_y>>}, FLOOR)
                         ELSE G3
                    ELSE G2
        RECURSIVE buildings(_, _, _)
        \* the buildings of zones z .. Len(building_zones), from building i of zone z on
        buildings(G, z, i) ==
            IF z > Len(building_zones) \/ G.raised # "" THEN G
            ELSE IF building_zones[z][3] < 7 \/ building_zones[z][4] < 7
                 THEN buildings(G, z + 1, 0)
            ELSE IF i = Draw(1, Max(1, Min(building_zones[z][3], building_zones[z][4]) \div 6),
                             D.a + z)
                 THEN buildings(G, z + 1, 0)
                 ELSE buildings(building(G, building_zones[z], z + i), z, i + 1)
        \* room_x < nx < room_x + room_w - 1 and room_y < ny < room_y + room_h - 1
        \* and self.grid[ny][nx] == TileType.FLOOR
        free(G, c) == Inside(G, c, 3) /\ TileIs(G, c, FLOOR)
        RECURSIVE decorations(_, _, _)
        \* wells, gardens and fences i .. n - 1
        decorations(G, i, n) ==
            IF i = n \/ G.raised # "" THEN G
            ELSE IF 3 > G.w - 5 \/ 3 > G.h - 5 THEN [G EXCEPT !.raised = "ValueError"]
            ELSE LET decor == <<Draw(3, G.w - 5, D.c + 7 * i), Draw(3, G.h - 5, D.d + 5 * i)>>
                     decor_type == (D.a + i) % 3
                     garden_w == Draw(2, 3, D.b + i)
                     fence_length == Draw(3, 5, D.b + i)
                     direction == IF Coin(D.c, i, 1, 2) THEN <<0, 1>> ELSE <<1, 0>>
                     well == SetTiles(G, {decor}, WATER)
                     G1 == IF ~TileIs(G, decor, FLOOR) THEN G
                           ELSE CASE decor_type = 0 ->
                                         SetTiles(well,
                                                  {c \in {Shift(decor, o) :
                                                             o \in {-1, 1} \X {-1, 1}} :
                                                      free(well, c)}, WALL)
                                  [] decor_type = 1 ->
                                         SetTiles(G, {c \in {Shift(decor, o) :
                                                                o \in (0 .. garden_w - 1) \X (0 .. 1)} :
                                                         free(G, c) /\ Coin(D.d, c[1] + c[2], 1, 2)},
                                                  WALL)
                                  [] OTHER ->
                                         SetTiles(G, {c \in {<<decor[1] + direction[1] * k,
                                                               decor[2] + direction[2] * k>> :
                                                                k \in 0 .. fence_length - 1} :
                                                         free(G, c) /\ Coin(D.d, c[1] + c[2], 4, 5)},
                                                  WALL)
                 IN decorations(G1, i + 1, n)
    IN [decorations(buildings(L1, 1, 0), 0, Draw(3, 8, D.a)) EXCEPT !.path_direction = path_direction]

----------------------------------------------------------------------------
(* Room.generate_cave_features *)

generate_cave_features(L, D) ==
    LET room_w == L.w - 4
        room_h == L.h - 4
        \* int(random.gauss(0, formation_size / 3)) for the rocks of a formation
        gauss == <<<<0, 0>>, <<1, 0>>, <<0, -1>>, <<-1, 1>>, <<2, -1>>, <<-2, 0>>, <<0, 2>>>>
        RECURSIVE formations(_, _, _)
        \* rock formations i .. n - 1
        formations(G, i, n) ==
            IF i = n \/ G.raised # "" THEN G
            ELSE IF ~(room_w > 6 /\ room_h > 6) THEN formations(G, i + 1, n)
            ELSE LET center == <<Draw(4, G.w - 5, D.b + 5 * i), Draw(4, G.h - 5, D.c + 3 * i)>>
                     formation_size == Draw(3, 7, D.d + i)
                     rocks == {c \in {Shift(center, gauss[1 + ((D.a + i + k) % 7)]) :
                                         k \in 0 .. formation_size * 2 - 1} : Inside(G, c, 3)}
                 IN formations(SetTiles(G, rocks, WALL), i + 1, n)
        RECURSIVE pillars(_, _, _)
        \* stalactite pillars i .. n - 1
        pillars(G, i, n) ==
            IF i = n \/ G.raised # "" THEN G
            ELSE LET edge_bias == (D.b + i) % 2
                     horizontal == Coin(D.c, i, 1, 2)
                     near_x == IF Coin(D.d, i, 1, 2) THEN 2 + Draw(0, 3, D.a + 2 * i)
                               ELSE 2 + room_w - Draw(1, 4, D.a + 2 * i)
                     near_y == IF Coin(D.d, i, 1, 2) THEN 2 + Draw(0, 3, D.a + 2 * i)
                               ELSE 2 + room_h - Draw(1, 4, D.a + 2 * i)
                     draws_x == edge_bias = 1 \/ horizontal
                     draws_y == edge_bias = 1 \/ ~horizontal
                     pillar == <<IF draws_x THEN Draw(3, room_w, D.c + 7 * i) ELSE near_x,
                                 IF draws_y THEN Draw(3, room_h, D.d + 5 * i) ELSE near_y>>
                     rocks == {c \in {Shift(pillar, <<Draw(-1, 1, D.a + k), Draw(-1, 1, D.b + i + k)>>) :
                                         k \in 0 .. Draw(1, 3, D.c + i) - 1} :
                                  Inside(G, c, 3) /\ Coin(D.d, i + c[1], 3, 5)}
                 IN IF (draws_x /\ 3 > room_w) \/ (draws_y /\ 3 > room_h)
                    THEN [G EXCEPT !.raised = "ValueError"]
                    ELSE pillars(IF Inside(G, pillar, 0) THEN SetTiles(G, {pillar} \cup rocks, WALL)
                                 ELSE G, i + 1, n)
        \* dist_from_center <= u for u = 0.3 (wide FALSE) or u = 0.7 (wide TRUE), both
        \* sides multiplied by 400 * pool_size ** 2
        in_pool(dx, dy, pool_size, wide) ==
            225 * (2 * dx - pool_size) * (2 * dx - pool_size)
                + 324 * (2 * dy - pool_size) * (2 * dy - pool_size)
            <= (IF wide THEN 280 ELSE 120) * pool_size * pool_size
        RECURSIVE pools(_, _, _)
        \* water pools i .. n - 1
        pools(G, i, n) ==
            IF i = n \/ G.raised # "" THEN G
            ELSE IF 3 > 2 + room_w - 6 \/ 3 > 2 + room_h - 6 THEN [G EXCEPT !.raised = "ValueError"]
            ELSE LET pool == <<Draw(3, 2 + room_w - 6, D.b + 3 * i), Draw(3, 2 + room_h - 6, D.c + i)>>
                     pool_size == Draw(3, 5, D.d + i)
                     water == {c \in {Shift(pool, o) : o \in
                                         {o \in (-1 .. pool_size) \X (-1 .. pool_size) :
                                             in_pool(o[1], o[2], pool_size,
                                                     Coin(D.a, o[1] + o[2] + 2, 1, 2))}} :
                                  /\ c[2] < 2 + room_h - 1 /\ c[1] < 2 + room_w - 1
                                  /\ c[2] >= 2 /\ c[1] >= 2}
                 IN pools(SetTiles(G, water, WATER), i + 1, n)
    IN pools(pillars(formations(L, 0, Draw(3, 6, D.a)), 0, Draw(3, 7, D.b)), 0, Draw(1, 3, D.c))

----------------------------------------------------------------------------
(* Game.generate_procedural_room *)

room_types == <<"cave", "forest", "dungeon", "village", "clearing", "ruins", "swamp", "mountain">>

type_names ==
    [t \in {room_types[i] : i \in 1..Len(room_types)} |->
        CASE t = "cave" -> <<"Echoing Cavern", "Crystal Grotto", "Deep Chamber", "Limestone Cave", "Hidden Hollow">>
          [] t = "forest" -> <<"Dense Woodland", "Mystic Grove", "Ancient Forest", "Enchanted Thicket", "Twilight Woods">>
          [] t = "dungeon" -> <<"Forgotten Crypt", "Stone Corridors", "Ancient Dungeon", "Dark Passages", "Lost Tomb">>
          [] t = "village" -> <<"Abandoned Village", "Rural Settlement", "Ghost Town", "Old Hamlet", "Desert Outpost">>
          [] t = "clearing" -> <<"Sunny Meadow", "Peaceful Glade", "Flower Field", "Open Plains", "Tranquil Grove">>
          [] t = "ruins" -> <<"Ancient Ruins", "Crumbling Temple", "Lost City", "Weathered Stones", "Forgotten Monument">>
          [] t = "swamp" -> <<"Murky Swamp", "Fetid Marsh", "Misty Bog", "Dark Wetlands", "Stagnant Pool">>
          [] t = "mountain" -> <<"Rocky Summit", "Windswept Peak", "Stone Plateau", "Alpine Pass", "Cliff Face">>]

\* room_id[-3:] of f"procedural_{id}": the last three decimal digits of id (id >= 100).
IdSuffix(id) == id % SuffixModulus


DifficultyFor_Uncapped(counter_after) ==
    1 + (counter_after - InitialRoomId) \div DifficultyStep

\* The difficulty is computed after room_id_counter was incremented (main.py:1599, 1616).
DifficultyFor(counter_after) ==
    Min(MaxDifficulty, 1 + (counter_after - InitialRoomId) \div DifficultyStep)

\* suggested_type is NoType for None; rtype and pick are the two random.choice outcomes.
\* The result is the new Room (its exits still empty), its name, and the counter after the call.
generate_procedural_room(suggested_type, rtype, pick) ==
    LET room_type == IF suggested_type # NoType THEN suggested_type ELSE rtype
        room_id == room_id_counter
        counter_after == room_id_counter + 1
        pool == IF room_type \in DOMAIN type_names
                THEN type_names[room_type] ELSE <<"Unknown Place">>
        base == pool[Min(pick, Len(pool))]
    IN  [name |-> <<base, IdSuffix(room_id)>>,
         counter |-> counter_after,
         room |-> [room_type |-> room_type,
                   difficulty_level |-> DifficultyFor(counter_after),
                   visited |-> FALSE,
                   exits |-> [d \in {} |-> <<NoName, 0, 0>>]]]

----------------------------------------------------------------------------
(* Game.discover_new_room *)

\* entry tile in the new room (stored in the source room's exit) per direction
EntryTile(direction) ==
    CASE direction = "north" -> <<GRID_WIDTH \div 2, GRID_HEIGHT - 2>>
      [] direction = "south" -> <<GRID_WIDTH \div 2, 1>>
      [] direction = "east" -> <<1, GRID_HEIGHT \div 2>>
      [] direction = "west" -> <<GRID_WIDTH - 2, GRID_HEIGHT \div 2>>

\* exit tile of the source room (stored in the new room's exit back) per direction
ExitTile(direction) ==
    CASE direction = "north" -> <<GRID_WIDTH \div 2, 0>>
      [] direction = "south" -> <<GRID_WIDTH \div 2, GRID_HEIGHT - 1>>
      [] direction = "east" -> <<GRID_WIDTH - 1, GRID_HEIGHT \div 2>>
      [] direction = "west" -> <<0, GRID_HEIGHT \div 2>>

IsDiscovered_Never(from_room, direction) == FALSE

\* main.py:1714-1715: whether the connection is known
IsDiscovered(from_room, direction) == <<from_room, direction>> \in DOMAIN discovered_exits

RegisterConnection_ForwardOnly(from_room, direction, new_name, opposite_dir) ==
    Put(discovered_exits, <<from_room, direction>>, <<new_name, opposite_dir>>)

\* main.py:1755-1756: the connection and its reverse
RegisterConnection(from_room, direction, new_name, opposite_dir) ==
    Put(Put(discovered_exits, <<from_room, direction>>, <<new_name, opposite_dir>>),
        <<new_name, opposite_dir>>, <<from_room, direction>>)

\* keep: random.random() < 0.4; rtype, pick: the random choices of generate_procedural_room
discover_new_room(from_room, direction, keep, rtype, pick) ==
    IF IsDiscovered(from_room, direction)
    THEN /\ last_call' = [from |-> from_room, dir |-> direction,
                          result |-> discovered_exits[<<from_room, direction>>][1],
                          generated |-> FALSE]
         /\ op' = "discover"
         /\ UNCHANGED <<rooms, room_id_counter, discovered_exits, gen_log>>
    ELSE LET current_room == rooms[from_room]
             suggested == IF keep THEN current_room.room_type ELSE NoType
             gen == generate_procedural_room(suggested, rtype, pick)
             opposite_dir == opposite_directions[direction]
             entry == EntryTile(direction)
             exit == ExitTile(direction)
             \* new_room.exits[opposite_dir] = (from_room, exit_x, exit_y)
             new_room == [gen.room EXCEPT !.exits = Put(@, opposite_dir, <<from_room, exit[1], exit[2]>>)]
             \* self.rooms[new_room.name] = new_room comes first; current_room is the object
             \* fetched before it, so its new exit shows in the table only if it is still there
             from_after == [current_room EXCEPT !.exits = Put(@, direction, <<gen.name, entry[1], entry[2]>>)]
         IN  /\ rooms' = Put([rooms EXCEPT ![from_room] = from_after], gen.name, new_room)
             /\ room_id_counter' = gen.counter
             /\ discovered_exits' = RegisterConnection(from_room, direction, gen.name, opposite_dir)
             /\ last_call' = [from |-> from_room, dir |-> direction,
                              result |-> gen.name, generated |-> TRUE]
             /\ gen_log' = Append(gen_log, gen.room.difficulty_level)
             /\ op' = "discover"

----------------------------------------------------------------------------
(* Game.update_room_visits *)

update_room_visits(room_name) ==
    /\ IF room_name \in DOMAIN rooms
       THEN rooms' = [rooms EXCEPT ![room_name] =
                        [@ EXCEPT !.visited = TRUE,
                                  !.difficulty_level = Min(MaxDifficulty, @ + 1)]]
       ELSE UNCHANGED rooms
    /\ op' = "visit"
    /\ UNCHANGED <<room_id_counter, discovered_exits, last_call, gen_log>>

----------------------------------------------------------------------------
(* Game.__init__ and Game.create_initial_rooms *)

StartRoom == HandBuilt("Mystic Cave Entrance")

InitialExits ==
    [n \in {HandBuilt("Mystic Cave Entrance"), HandBuilt("Crystal Chamber"),
            HandBuilt("Underground Tunnels"), HandBuilt("Lost City of Aethermoor"),
            HandBuilt("Merchant Quarter"), HandBuilt("Bandit Camp")} |->
        CASE n = HandBuilt("Mystic Cave Entrance") ->
                [d \in {"north", "east"} |->
                    IF d = "north" THEN <<HandBuilt("Crystal Chamber"), GRID_WIDTH \div 2, GRID_HEIGHT - 2>>
                    ELSE <<HandBuilt("Merchant Quarter"), 1, GRID_HEIGHT \div 2>>]
          [] n = HandBuilt("Crystal Chamber") ->
                [d \in {"south", "west"} |->
                    IF d = "south" THEN <<HandBuilt("Mystic Cave Entrance"), GRID_WIDTH \div 2, 1>>
                    ELSE <<HandBuilt("Underground Tunnels"), GRID_WIDTH - 2, GRID_HEIGHT \div 2>>]
          [] n = HandBuilt("Underground Tunnels") ->
                [d \in {"east", "north"} |->
                    IF d = "east" THEN <<HandBuilt("Crystal Chamber"), 1, GRID_HEIGHT \div 2>>
                    ELSE <<HandBuilt("Lost City of Aethermoor"), GRID_WIDTH \div 2, GRID_HEIGHT - 2>>]
          [] n = HandBuilt("Lost City of Aethermoor") ->
                [d \in {"south"} |-> <<HandBuilt("Underground Tunnels"), GRID_WIDTH \div 2, 1>>]
          [] n = HandBuilt("Merchant Quarter") ->
                [d \in {"west", "north"} |->
                    IF d = "west" THEN <<HandBuilt("Mystic Cave Entrance"), GRID_WIDTH - 2, GRID_HEIGHT \div 2>>
                    ELSE <<HandBuilt("Bandit Camp"), GRID_WIDTH \div 2, GRID_HEIGHT - 2>>]
          [] n = HandBuilt("Bandit Camp") ->
                [d \in {"south"} |-> <<HandBuilt("Merchant Quarter"), GRID_WIDTH \div 2, 1>>]]

create_initial_rooms ==
    [n \in DOMAIN InitialExits |->
        [room_type |-> "cave", difficulty_level |-> 1, visited |-> FALSE,
         exits |-> InitialExits[n]]]

NoCall == [from |-> NoName, dir |-> "", result |-> NoName, generated |-> FALSE]
\* no NPC built yet
NoNPC == [step |-> "none", args |-> <<>>, raised |-> "", obj |-> <<>>, restored |-> <<>>]
NoLoad == [kind |-> "", result |-> FALSE]
NoExits == [k \in {} |-> <<NoName, "">>]

WorldInit ==
    /\ rooms = create_initial_rooms
    /\ room_id_counter = InitialRoomId
    /\ discovered_exits = NoExits
    /\ last_call = NoCall
    /\ gen_log = <<>>
    /\ op = "init"
    /\ player = "None"
    /\ state = "NAME_INPUT"
    /\ last_load = NoLoad
    /\ layout = NoLayout
    /\ npc = NoNPC
    /\ grids = NoGrids

----------------------------------------------------------------------------
(* src/enemies.py: Enemy *)

EnemyTypes == {"SLIME", "SKELETON", "GOBLIN", "BAT", "SPIDER"}

get_base_speed_Default(enemy_type) == 1

get_base_speed(enemy_type) ==
    CASE enemy_type = "SLIME" -> 1
      [] enemy_type = "SKELETON" -> 2
      [] enemy_type = "GOBLIN" -> 3
      [] enemy_type = "BAT" -> 4
      [] enemy_type = "SPIDER" -> 2
      [] OTHER -> 1

get_base_damage_Flat(enemy_type) == 5

get_base_damage(enemy_type) ==
    CASE enemy_type = "SLIME" -> 5
      [] enemy_type = "SKELETON" -> 8
      [] enemy_type = "GOBLIN" -> 10
      [] enemy_type = "BAT" -> 3
      [] enemy_type = "SPIDER" -> 7
      [] OTHER -> 5

get_default_behavior(enemy_type) ==
    CASE enemy_type = "SLIME" -> "PATROL"
      [] enemy_type = "SKELETON" -> "AGGRESSIVE"
      [] enemy_type = "GOBLIN" -> "AGGRESSIVE"
      [] enemy_type = "BAT" -> "PATROL"
      [] enemy_type = "SPIDER" -> "LURK"
      [] OTHER -> "IDLE"

aggro_range_Inclusive == 150 + 1   \* a notice range that takes in 150 itself
aggro_range == 150
attack_range_Short == 30 - 10     \* a reach ten units short
attack_range == 30
AttackCooldown == 30
FleeDuration_Short == 60 - 1      \* a flight one tick short
FleeDuration == 60
HitAnimation == 10
animation_speed == 8
AnimationFrames == 4
StuckThreshold_Low == 10 - 1      \* a threshold one tick early
StuckThreshold == 10
PatrolArrive == 10
PlayerStartHealth == 100

(* pygame.Rect *)
Rect(x, y, w, h) == [x |-> x, y |-> y, w |-> w, h |-> h]
\* Rect.move takes the int part of a float offset; the offsets here are already ints
Move(r, dx, dy) == [r EXCEPT !.x = @ + dx, !.y = @ + dy]
Center(r) == <<r.x + r.w \div 2, r.y + r.h \div 2>>
TopLeft(r) == <<r.x, r.y>>
colliderect(a, b) ==
    /\ a.x < b.x + b.w
    /\ b.x < a.x + a.w
    /\ a.y < b.y + b.h
    /\ b.y < a.y + a.h

\* wall_check_func(rect) over the wall rectangles ws
wall_check_func(ws, r) == \E w \in ws : colliderect(r, w)

Sgn(n) == IF n < 0 THEN -1 ELSE IF n > 0 THEN 1 ELSE 0
DistSq(p, q) == (q[1] - p[1]) * (q[1] - p[1]) + (q[2] - p[2]) * (q[2] - p[2])

\* int(d / sqrt(dd) * speed), the offset Rect.move applies for the float d / dist * speed:
\* the largest k with k * sqrt(dd) <= speed * |d|, signed as d (0 when dist is 0)
ScaledStep(d, dd, speed) ==
    IF d = 0 \/ dd = 0 THEN 0
    ELSE Sgn(d) * (CHOOSE k \in 0..speed :
                      /\ k * k * dd <= speed * speed * d * d
                      /\ (k + 1) * (k + 1) * dd > speed * speed * d * d)

NoPos == <<>>

\* Enemy.__init__; direction is the outcome of random.choice
NewEnemy(enemy_type, rect, health, direction) ==
    [enemy_type |-> enemy_type,
     rect |-> rect,
     health |-> health,
     max_health |-> health,
     speed |-> get_base_speed(enemy_type),
     damage |-> get_base_damage(enemy_type),
     behavior |-> get_default_behavior(enemy_type),
     attack_cooldown |-> 0,
     state_timer |-> 0,
     direction |-> direction,
     patrol_points |-> <<>>,
     patrol_index |-> 0,
     target_position |-> NoPos,
     last_position |-> TopLeft(rect),
     stuck_counter |-> 0,
     facing_right |-> TRUE,
     animation_frame |-> 0,
     animation_timer |-> 0,
     is_attacking |-> FALSE,
     is_hit |-> FALSE,
     hit_animation_timer |-> 0]

take_damage_FleeAtAnyHealth(e, damage, flee_roll) ==
    LET health == e.health - damage
        e1 == [e EXCEPT !.health = health, !.is_hit = TRUE, !.hit_animation_timer = HitAnimation]
        e2 == IF flee_roll THEN [e1 EXCEPT !.behavior = "FLEE", !.state_timer = FleeDuration] ELSE e1
    IN  [enemy |-> e2, defeated |-> health <= 0, fled |-> flee_roll]

\* Enemy.take_damage; flee_roll is random.random() < 0.3.  The result carries the enemy
\* after the call, the value returned and whether the switch to FLEE was made
take_damage(e, damage, flee_roll) ==
    LET health == e.health - damage
        flee == 2 * health < e.max_health /\ flee_roll
        e1 == [e EXCEPT !.health = health, !.is_hit = TRUE, !.hit_animation_timer = HitAnimation]
        e2 == IF flee THEN [e1 EXCEPT !.behavior = "FLEE", !.state_timer = FleeDuration] ELSE e1
    IN  [enemy |-> e2, defeated |-> health <= 0, fled |-> flee]

distance_sq_to_player(e, p_rect) == DistSq(Center(e.rect), Center(p_rect))

\* Enemy.update_behavior; off1 and off2 are the random offsets of the two new patrol points
update_behavior(e, p_rect, off1, off2) ==
    LET dd == distance_sq_to_player(e, p_rect)
        e1 == IF e.behavior = "LURK" /\ dd < aggro_range * aggro_range
              THEN [e EXCEPT !.behavior = "AGGRESSIVE"] ELSE e
        e2 == IF e1.behavior = "FLEE" /\ e1.state_timer <= 0
              THEN [e1 EXCEPT !.behavior = get_default_behavior(e.enemy_type)] ELSE e1
        p1 == <<e.rect.x + off1[1], e.rect.y + off1[2]>>
        p2 == <<e.rect.x + off2[1], e.rect.y + off2[2]>>
    IN  IF e2.stuck_counter > StuckThreshold
        THEN [e2 EXCEPT !.behavior = "PATROL", !.stuck_counter = 0,
                        !.patrol_points = <<p1, p2>>, !.patrol_index = 0,
                        !.target_position = p1]
        ELSE e2

SlideMove_VerticalFirst(e, ws, mx, my, right) ==
    IF ~wall_check_func(ws, Move(e.rect, mx, my))
    THEN [e EXCEPT !.rect = Move(e.rect, mx, my), !.facing_right = right]
    ELSE IF ~wall_check_func(ws, Move(e.rect, 0, my))
    THEN [e EXCEPT !.rect = Move(e.rect, 0, my)]
    ELSE IF ~wall_check_func(ws, Move(e.rect, mx, 0))
    THEN [e EXCEPT !.rect = Move(e.rect, mx, 0), !.facing_right = right]
    ELSE e

\* the move of PATROL and AGGRESSIVE: the full vector, else horizontal only, else vertical only
SlideMove(e, ws, mx, my, right) ==
    IF ~wall_check_func(ws, Move(e.rect, mx, my))
    THEN [e EXCEPT !.rect = Move(e.rect, mx, my), !.facing_right = right]
    ELSE IF ~wall_check_func(ws, Move(e.rect, mx, 0))
    THEN [e EXCEPT !.rect = Move(e.rect, mx, 0), !.facing_right = right]
    ELSE IF ~wall_check_func(ws, Move(e.rect, 0, my))
    THEN [e EXCEPT !.rect = Move(e.rect, 0, my)]
    ELSE e

DirectMove_Unchecked(e, ws, mx, my, right) ==
    [e EXCEPT !.rect = Move(e.rect, mx, my), !.facing_right = right]

\* the move of FLEE: the full vector or nothing
DirectMove(e, ws, mx, my, right) ==
    IF ~wall_check_func(ws, Move(e.rect, mx, my))
    THEN [e EXCEPT !.rect = Move(e.rect, mx, my), !.facing_right = right]
    ELSE e

TickTimers_Unfloored(e) ==
    LET frame_due == e.animation_timer + 1 >= animation_speed
    IN  [e EXCEPT !.attack_cooldown = @ - 1,
                  !.state_timer = @ - 1,
                  !.hit_animation_timer = @ - 1,
                  !.is_hit = IF e.hit_animation_timer > 0 THEN @ ELSE FALSE,
                  !.animation_timer = IF frame_due THEN 0 ELSE @ + 1,
                  !.animation_frame = IF frame_due THEN (@ + 1) % AnimationFrames ELSE @]

\* enemies.py:164-180: the timers and the animation counter
TickTimers(e) ==
    LET frame_due == e.animation_timer + 1 >= animation_speed
    IN  [e EXCEPT !.attack_cooldown = IF @ > 0 THEN @ - 1 ELSE @,
                  !.state_timer = IF @ > 0 THEN @ - 1 ELSE @,
                  !.hit_animation_timer = IF @ > 0 THEN @ - 1 ELSE @,
                  !.is_hit = IF e.hit_animation_timer > 0 THEN @ ELSE FALSE,
                  !.animation_timer = IF frame_due THEN 0 ELSE @ + 1,
                  !.animation_frame = IF frame_due THEN (@ + 1) % AnimationFrames ELSE @]

\* enemies.py:182-188: the stuck counter
TrackStuck(e) ==
    IF TopLeft(e.rect) = e.last_position
    THEN [e EXCEPT !.stuck_counter = @ + 1]
    ELSE [e EXCEPT !.stuck_counter = 0, !.last_position = TopLeft(e.rect)]

\* enemies.py:191-200; turn is random.random() < 0.01, new_dir the direction then drawn
MoveIdle(e, ws, turn, new_dir) ==
    LET e1 == IF turn THEN [e EXCEPT !.direction = new_dir] ELSE e
        mx == e1.direction[1] * e1.speed
        my == e1.direction[2] * e1.speed
    IN  DirectMove(e1, ws, mx, my, e1.direction[1] >= 0)

\* enemies.py:202-244; off1 and off2 are the random offsets of the patrol points created
MovePatrol(e, ws, off1, off2) ==
    IF e.patrol_points # <<>> /\ e.target_position # NoPos
    THEN LET dx == e.target_position[1] - e.rect.x
             dy == e.target_position[2] - e.rect.y
             dd == dx * dx + dy * dy
             next_index == (e.patrol_index + 1) % Len(e.patrol_points)
         IN  IF dd < PatrolArrive * PatrolArrive
             THEN [e EXCEPT !.patrol_index = next_index,
                            !.target_position = e.patrol_points[next_index + 1]]
             ELSE SlideMove(e, ws, ScaledStep(dx, dd, e.speed), ScaledStep(dy, dd, e.speed), dx >= 0)
    ELSE LET p1 == <<e.rect.x + off1[1], e.rect.y + off1[2]>>
             p2 == <<e.rect.x + off2[1], e.rect.y + off2[2]>>
         IN  [e EXCEPT !.patrol_points = <<p1, p2>>, !.patrol_index = 0, !.target_position = p1]

\* enemies.py:246-281: the attack, or the move toward the player
AttackNow(e, p_rect) ==
    /\ distance_sq_to_player(e, p_rect) <= attack_range * attack_range
    /\ e.attack_cooldown <= 0

MoveAggressive(e, p_rect, ws) ==
    LET dx == Center(p_rect)[1] - Center(e.rect)[1]
        dy == Center(p_rect)[2] - Center(e.rect)[2]
        dd == dx * dx + dy * dy
    IN  IF AttackNow(e, p_rect)
        THEN [e EXCEPT !.attack_cooldown = AttackCooldown, !.is_attacking = TRUE]
        ELSE IF dd > attack_range * attack_range
        THEN SlideMove([e EXCEPT !.is_attacking = FALSE], ws,
                       ScaledStep(dx, dd, e.speed), ScaledStep(dy, dd, e.speed), dx >= 0)
        ELSE e

\* enemies.py:287-303
MoveFlee(e, p_rect, ws) ==
    LET dx == Center(e.rect)[1] - Center(p_rect)[1]
        dy == Center(e.rect)[2] - Center(p_rect)[2]
        dd == dx * dx + dy * dy
    IN  DirectMove(e, ws, ScaledStep(dx, dd, e.speed), ScaledStep(dy, dd, e.speed), dx >= 0)

\* Enemy.update_movement: the enemy after the call and the value returned
update_movement(e, p_rect, ws, turn, new_dir, off1, off2) ==
    LET e1 == TrackStuck(TickTimers(e))
    IN  CASE e1.behavior = "IDLE" ->
                [enemy |-> MoveIdle(e1, ws, turn, new_dir), attacking |-> FALSE]
          [] e1.behavior = "PATROL" ->
                [enemy |-> MovePatrol(e1, ws, off1, off2), attacking |-> FALSE]
          [] e1.behavior = "AGGRESSIVE" ->
                [enemy |-> MoveAggressive(e1, p_rect, ws), attacking |-> AttackNow(e1, p_rect)]
          [] e1.behavior = "LURK" ->
                [enemy |-> e1, attacking |-> FALSE]
          [] e1.behavior = "FLEE" ->
                [enemy |-> MoveFlee(e1, p_rect, ws), attacking |-> FALSE]
          [] OTHER -> [enemy |-> e1, attacking |-> FALSE]

----------------------------------------------------------------------------
(* The combat resolution of spec.md 4.5, which src/ does not contain *)

\* Enemy -> player: an attack subtracts the enemy's damage from the player's health
ResolveEnemyAttack(health, e, attack) == IF attack THEN health - e.damage ELSE health

\* Player -> enemy: an enemy whose health is <= 0 after take_damage leaves its Room
StaysInRoom(defeated) == ~defeated

----------------------------------------------------------------------------
(* The operations on the enemy *)

\* random outcomes the specifications enumerate
StuckOffsets == {<<-50, -50>>, <<50, 0>>, <<7, 30>>}
PatrolOffsets == {<<-100, 0>>, <<60, 80>>}
IdleDirections == {<<1, 0>>, <<-1, 0>>, <<0, 1>>, <<0, -1>>, <<0, 0>>}
DamageChoices == {3, 7, 15}

\* the outcomes of a random draw: all of them where the code draws, one where it does not
DrawnFor(drawn, outcomes) == IF drawn THEN outcomes ELSE {CHOOSE o \in outcomes : TRUE}

\* one call of update_behavior, the first half of a tick, while fewer than max ticks ran
UpdateBehaviorStep(max) ==
    /\ phase = "behavior"
    /\ in_room
    /\ player_health > 0
    /\ tick < max
    /\ \E offs \in DrawnFor(enemy.stuck_counter > StuckThreshold, StuckOffsets \X StuckOffsets) :
            enemy' = update_behavior(enemy, player_rect, offs[1], offs[2])
    /\ overridden' = (overridden \/ (since_flee >= 0 /\ enemy.stuck_counter > StuckThreshold))
    /\ phase' = "movement"
    /\ UNCHANGED <<in_room, player_rect, player_health, walls, attacking, tick, hits, since_flee>>
    /\ UNCHANGED <<rooms, room_id_counter, discovered_exits, last_call, gen_log, op>>
    /\ UNCHANGED game_vars
    /\ UNCHANGED room_vars
    /\ UNCHANGED npc

EnemyUpdateBehavior == UpdateBehaviorStep(MaxTicks)

EnemyUpdateMovement ==
    /\ phase = "movement"
    /\ \E turn \in DrawnFor(enemy.behavior = "IDLE", BOOLEAN),
          new_dir \in DrawnFor(enemy.behavior = "IDLE", IdleDirections),
          offs \in DrawnFor(enemy.behavior = "PATROL" /\ enemy.patrol_points = <<>>,
                            PatrolOffsets \X PatrolOffsets) :
            LET res == update_movement(enemy, player_rect, walls, turn, new_dir, offs[1], offs[2])
            IN  /\ enemy' = res.enemy
                /\ attacking' = res.attacking
                /\ player_health' = ResolveEnemyAttack(player_health, res.enemy, res.attacking)
    /\ phase' = "behavior"
    /\ tick' = tick + 1
    /\ since_flee' = IF since_flee >= 0 /\ since_flee <= 60 THEN since_flee + 1 ELSE -1
    /\ UNCHANGED <<in_room, player_rect, walls, hits, overridden>>
    /\ UNCHANGED <<rooms, room_id_counter, discovered_exits, last_call, gen_log, op>>
    /\ UNCHANGED game_vars
    /\ UNCHANGED room_vars
    /\ UNCHANGED npc

PlayerHits ==
    /\ phase = "behavior"
    /\ in_room
    /\ player_health > 0
    /\ hits < MaxHits
    /\ tick < MaxHitTick
    /\ \E damage \in DamageChoices, flee_roll \in BOOLEAN :
            LET res == take_damage(enemy, damage, flee_roll)
            IN  /\ enemy' = res.enemy
                /\ in_room' = StaysInRoom(res.defeated)
                /\ since_flee' = IF res.fled THEN 0 ELSE -1
    /\ hits' = hits + 1
    /\ overridden' = FALSE
    /\ UNCHANGED <<player_rect, player_health, walls, attacking, phase, tick>>
    /\ UNCHANGED <<rooms, room_id_counter, discovered_exits, last_call, gen_log, op>>
    /\ UNCHANGED game_vars
    /\ UNCHANGED room_vars
    /\ UNCHANGED npc

----------------------------------------------------------------------------
(* Initial states *)

PlayerRect == Rect(392, 292, TILE_SIZE \div 2, TILE_SIZE \div 2)

\* no enemy spawned: the world-graph specifications leave these alone
EnemyAbsent ==
    /\ enemy = NewEnemy("SLIME", Rect(0, 0, TILE_SIZE, TILE_SIZE), 10, <<1, 0>>)
    /\ in_room = FALSE
    /\ player_rect = PlayerRect
    /\ player_health = PlayerStartHealth
    /\ walls = {}
    /\ attacking = FALSE
    /\ phase = "behavior"
    /\ tick = 0
    /\ hits = 0
    /\ since_flee = -1
    /\ overridden = FALSE

\* an enemy of the type at the top-left corner, with the walls ws
EnemySpawned(types, corners, healths, wall_sets) ==
    /\ \E t \in types, c \in corners, h \in healths :
            enemy = NewEnemy(t, Rect(c[1], c[2], TILE_SIZE, TILE_SIZE), h, <<1, 0>>)
    /\ in_room = TRUE
    /\ player_rect = PlayerRect
    /\ player_health = PlayerStartHealth
    /\ walls \in wall_sets
    /\ attacking = FALSE
    /\ phase = "behavior"
    /\ tick = 0
    /\ hits = 0
    /\ since_flee = -1
    /\ overridden = FALSE

----------------------------------------------------------------------------
(* Specifications of the world graph *)

\* random inputs of one discover_new_room call that the specifications enumerate
TypeChoices == {"cave"}
PickChoices == {1}

Generated == room_id_counter - InitialRoomId

\* Spec: any call on any existing room and direction, up to MaxGen generated rooms
Discover ==
    /\ \E from_room \in DOMAIN rooms, direction \in Directions, keep \in BOOLEAN,
          rtype \in TypeChoices, pick \in PickChoices :
            /\ IsDiscovered(from_room, direction) \/ Generated < MaxGen
            /\ discover_new_room(from_room, direction, keep, rtype, pick)
    /\ UNCHANGED enemy_vars
    /\ UNCHANGED game_vars
    /\ UNCHANGED room_vars
    /\ UNCHANGED npc

Init == WorldInit /\ EnemyAbsent

Next == Discover

Spec == Init /\ [][Next]_vars

\* SpecWalk: every generating call goes north from the room the previous call returned
\* (a player walking north from the Crystal Chamber), always drawing the first cave name;
\* update_room_visits is called on the start room and on the first generated room
WalkFrom == IF last_call = NoCall THEN HandBuilt("Crystal Chamber") ELSE last_call.result

DiscoverNorth(max) ==
    /\ Generated < max
    /\ discover_new_room(WalkFrom, "north", TRUE, "cave", 1)
    /\ UNCHANGED enemy_vars
    /\ UNCHANGED game_vars
    /\ UNCHANGED room_vars
    /\ UNCHANGED npc

VisitChoices == {StartRoom, <<"Echoing Cavern", 0>>}

Visit ==
    /\ \E room_name \in VisitChoices : update_room_visits(room_name)
    /\ UNCHANGED enemy_vars
    /\ UNCHANGED game_vars
    /\ UNCHANGED room_vars
    /\ UNCHANGED npc

WalkNorth == DiscoverNorth(MaxWalk)

NextWalk == WalkNorth \/ Visit

SpecWalk == Init /\ [][NextWalk]_vars

\* SpecLong: the same walk, carried on until every three-digit suffix is taken
WalkFar == DiscoverNorth(SuffixModulus)

NextLong == WalkFar

SpecLong == Init /\ [][NextLong]_vars

\* The world that walk ends in: the rooms G(0) .. G(999) in a row north of the Crystal
\* Chamber.  LateWorldReached, an invariant of SpecLong, says that this is that world.
G(i) == <<"Echoing Cavern", i>>
LateCount == SuffixModulus
LateLast == G(LateCount - 1)

LateRooms ==
    [n \in DOMAIN create_initial_rooms \cup {G(i) : i \in 0..(LateCount - 1)} |->
        IF n = HandBuilt("Crystal Chamber")
        THEN [create_initial_rooms[n] EXCEPT
                !.exits = Put(@, "north", <<G(0), EntryTile("north")[1], EntryTile("north")[2]>>)]
        ELSE IF n \in DOMAIN create_initial_rooms
        THEN create_initial_rooms[n]
        ELSE [room_type |-> "cave",
              difficulty_level |-> DifficultyFor(InitialRoomId + n[2] + 1),
              visited |-> FALSE,
              exits |-> [d \in (IF n = LateLast THEN {"south"} ELSE {"south", "north"}) |->
                            IF d = "south"
                            THEN <<IF n[2] = 0 THEN HandBuilt("Crystal Chamber") ELSE G(n[2] - 1),
                                   ExitTile("north")[1], ExitTile("north")[2]>>
                            ELSE <<G(n[2] + 1), EntryTile("north")[1], EntryTile("north")[2]>>]]]

LateDiscoveredExits ==
    [k \in ({<<HandBuilt("Crystal Chamber"), "north">>}
             \cup {<<G(i), "south">> : i \in 0..(LateCount - 1)}
             \cup {<<G(i), "north">> : i \in 0..(LateCount - 2)}) |->
        IF k[2] = "north"
        THEN <<IF k[1] = HandBuilt("Crystal Chamber") THEN G(0) ELSE G(k[1][2] + 1), "south">>
        ELSE <<IF k[1][2] = 0 THEN HandBuilt("Crystal Chamber") ELSE G(k[1][2] - 1), "north">>]

LateWorld ==
    /\ rooms = LateRooms
    /\ room_id_counter = InitialRoomId + LateCount
    /\ discovered_exits = LateDiscoveredExits
    /\ last_call = [from |-> G(LateCount - 2), dir |-> "north", result |-> LateLast,
                    generated |-> TRUE]
    /\ gen_log = [i \in 1..LateCount |-> DifficultyFor(InitialRoomId + i)]
    /\ op = "discover"
    /\ player = "None"
    /\ state = "NAME_INPUT"
    /\ last_load = NoLoad
    /\ layout = NoLayout
    /\ npc = NoNPC
    /\ grids = NoGrids

LateWorldReached == (room_id_counter = InitialRoomId + LateCount) => LateWorld

\* SpecLate: from that world, any call on its last room, on the Crystal Chamber or on the
\* start room, up to MaxLate more generated rooms
LateFrom == {LateLast, HandBuilt("Crystal Chamber"), StartRoom}

DiscoverLate ==
    /\ \E from_room \in LateFrom, direction \in Directions, keep \in BOOLEAN,
          rtype \in TypeChoices, pick \in PickChoices :
            /\ IsDiscovered(from_room, direction) \/ Generated < LateCount + MaxLate
            /\ discover_new_room(from_room, direction, keep, rtype, pick)
    /\ UNCHANGED enemy_vars
    /\ UNCHANGED game_vars
    /\ UNCHANGED room_vars
    /\ UNCHANGED npc

LateInit == LateWorld /\ EnemyAbsent

NextLate == DiscoverLate

SpecLate == LateInit /\ [][NextLate]_vars

----------------------------------------------------------------------------
(* Game.load_game and the save files it reads *)

\* What load_game meets in SAVE_FILE: no file ("absent"); text json.load rejects, or data
\* without a usable 'player' ("unparsable"); a 'rooms' entry Room.from_dict rejects
\* ("bad_rooms"); a 'discovered_exits' entry that cannot be split or made a tuple, after
\* the entries in discovered_exits were read ("bad_exits"); 'settings' that
\* GameSettings.from_dict rejects ("bad_settings"); or a complete save ("valid").
CorruptKinds == {"unparsable", "bad_rooms", "bad_exits", "bad_settings"}
FileKinds == {"absent", "valid"} \cup CorruptKinds

SavedCounters == {InitialRoomId, InitialRoomId + 7}
SavedExits ==
    {NoExits,
     (<<StartRoom, "west">> :> <<<<"Echoing Cavern", 3>>, "east">>)}

SaveFiles ==
    [kind : FileKinds, room_id_counter : SavedCounters, discovered_exits : SavedExits]

\* how far the try block of load_game gets before the file's content raises
ReadsRooms(kind) == kind \in {"bad_rooms", "bad_exits", "bad_settings", "valid"}
ReadsCounter(kind) == kind \in {"bad_exits", "bad_settings", "valid"}

load_game(file) ==
    IF file.kind = "absent"
    THEN /\ last_load' = [kind |-> file.kind, result |-> FALSE]
         /\ UNCHANGED <<rooms, room_id_counter, discovered_exits, player, state>>
    ELSE /\ room_id_counter' = IF ReadsCounter(file.kind) THEN file.room_id_counter
                                ELSE room_id_counter
         /\ discovered_exits' = IF ReadsCounter(file.kind) THEN file.discovered_exits
                                 ELSE discovered_exits
         /\ IF file.kind = "valid"
            THEN \* the save holds the six rooms as saved right after the start
                 /\ rooms' = create_initial_rooms
                 /\ player' = "Player"
                 /\ state' = "PLAYING"
                 /\ last_load' = [kind |-> file.kind, result |-> TRUE]
            ELSE \* except Exception: reset to a safe state
                 /\ rooms' = create_initial_rooms
                 /\ player' = "None"
                 /\ state' = "NAME_INPUT"
                 /\ last_load' = [kind |-> file.kind, result |-> FALSE]

\* SpecLoad: the name is entered, rooms are discovered (up to MaxLoadGen generated), and
\* load_game is called on any of the save files
LoadGame ==
    /\ \E file \in SaveFiles : load_game(file)
    /\ op' = "load"
    /\ UNCHANGED <<last_call, gen_log>>
    /\ UNCHANGED enemy_vars
    /\ UNCHANGED room_vars
    /\ UNCHANGED npc

\* handle_input in NAME_INPUT, K_RETURN with a name typed: the player is created
EnterName ==
    /\ state = "NAME_INPUT"
    /\ player' = "Player"
    /\ state' = "PLAYING"
    /\ op' = "name"
    /\ UNCHANGED <<rooms, room_id_counter, discovered_exits, last_call, gen_log, last_load>>
    /\ UNCHANGED enemy_vars
    /\ UNCHANGED room_vars
    /\ UNCHANGED npc

DiscoverPlaying ==
    /\ state = "PLAYING"
    /\ \E from_room \in DOMAIN rooms, direction \in Directions, keep \in BOOLEAN,
          rtype \in TypeChoices, pick \in PickChoices :
            /\ IsDiscovered(from_room, direction) \/ Len(gen_log) < MaxLoadGen
            /\ discover_new_room(from_room, direction, keep, rtype, pick)
    /\ UNCHANGED enemy_vars
    /\ UNCHANGED game_vars
    /\ UNCHANGED room_vars
    /\ UNCHANGED npc

NextLoad == EnterName \/ DiscoverPlaying \/ LoadGame

SpecLoad == Init /\ [][NextLoad]_vars

----------------------------------------------------------------------------
(* Room.__init__ and Room.generate_procedural_layout *)

BiomeTags == {"cave", "forest", "dungeon", "village", "clearing", "ruins", "swamp", "mountain"}

\* choice holds the random choices of the generator the tag selects.  The
\* generators of forest, dungeon, clearing, ruins, swamp and mountain are not
\* modelled, and no specification constructs a room of these tags.
generate_procedural_layout(L, num, choice) ==
    LET L1 == add_potential_exits(L, num) IN
    CASE L.room_type = "cave" -> generate_cave_features(L1, choice.seeds)
      [] L.room_type = "village" ->
             generate_village_features(L1, choice.path_direction, choice.seeds)
      [] L.room_type \notin BiomeTags ->
             generate_generic_features(L1, choice.dominant_feature, choice.side,
                                       choice.bridges, choice.seeds)

\* Room(name, grid_width, grid_height, room_type): the grid starts all FLOOR
Room(grid_width, grid_height, room_type, num, choice) ==
    generate_procedural_layout(
        [NoLayout EXCEPT !.w = grid_width, !.h = grid_height, !.room_type = room_type,
                         !.grid = [c \in (0 .. grid_width - 1) \X (0 .. grid_height - 1) |-> FLOOR],
                         !.made = TRUE],
        num, choice)

\* the sizes a Room is constructed with: the game's, and smaller ones
RoomSizes == {<<GRID_WIDTH, GRID_HEIGHT>>, <<28, 10>>, <<5, 5>>}

\* one Room is constructed, with any of the random choices of choices
Construct(room_type, choices) ==
    /\ ~layout.made
    /\ \E size \in RoomSizes, num \in NumExitChoices, choice \in choices :
           layout' = Room(size[1], size[2], room_type, num, choice)
    /\ op' = "room"
    /\ UNCHANGED <<rooms, room_id_counter, discovered_exits, last_call, gen_log, grids>>
    /\ UNCHANGED enemy_vars
    /\ UNCHANGED game_vars
    /\ UNCHANGED npc

ConstructCave == Construct("cave", {[seeds |-> D] : D \in DrawSeeds})

ConstructVillage ==
    Construct("village", {[seeds |-> D, path_direction |-> p] :
                             D \in DrawSeeds, p \in {"horizontal", "vertical", "cross"}})

\* random.sample(['north', 'south', 'east', 'west'], k=random.randint(2, 4)) is
\* drawn from four of its outcomes; side and bridges are drawn where they are used
ConstructGeneric ==
    Construct("generic",
              {choice \in [seeds : DrawSeeds,
                           dominant_feature : {"pillars", "maze", "chambers", "asymmetric", "island"},
                           side : Directions,
                           bridges : {{"north", "south"}, {"east", "west"},
                                      {"north", "west", "east"}, Directions}] :
                  /\ choice.dominant_feature # "asymmetric" => choice.side = "north"
                  /\ choice.dominant_feature # "island" => choice.bridges = Directions})

NextRoom == ConstructCave \/ ConstructVillage \/ ConstructGeneric

SpecRoom == Init /\ [][NextRoom]_vars

----------------------------------------------------------------------------
(* Game.place_exit_tile and the grids of Game.rooms *)

place_exit_tile_NoClear(L, tile) ==
    IF Inside(L, tile, 0) THEN SetTiles(L, {tile}, EXIT) ELSE L

\* place_exit_tile(room, direction, tile_y, tile_x), tile == <<tile_x, tile_y>>
place_exit_tile(L, tile) ==
    IF Inside(L, tile, 0)
    THEN LET L1 == SetTiles(L, {tile}, EXIT) IN
         SetTiles(L1, {c \in {Shift(tile, o) : o \in (-1 .. 1) \X (-1 .. 1)} :
                         Inside(L1, c, 0) /\ ~TileIs(L1, c, EXIT)}, FLOOR)
    ELSE L

\* the seeds of the rooms whose grids the specification of the tiles follows
TileSeeds == {[a |-> 0, b |-> 0, c |-> -1, d |-> 0], [a |-> -1, b |-> -1, c |-> 0, d |-> -1]}

\* create_initial_rooms: the grid of hand-built room n.  Each is a cave of the
\* game's size; Crystal Chamber gets three WATER tiles and the Lost City two
\* CHEST tiles where the draw finds FLOOR; then the exit tiles are placed.
InitialGrid(n, D) ==
    LET built == Room(GRID_WIDTH, GRID_HEIGHT, "cave",
                      [north |-> 2, south |-> 3, west |-> 3, east |-> 2], [seeds |-> D])
        water == {<<Draw(2, GRID_WIDTH - 3, D.a + 7 * i), Draw(2, GRID_HEIGHT - 3, D.b + 5 * i)>> :
                     i \in 0 .. 2}
        chests == {<<Draw(1, GRID_WIDTH - 2, D.a + 17 + i), Draw(1, GRID_HEIGHT - 2, D.d + 5 * i)>> :
                      i \in 0 .. 1}
        filled == CASE n = HandBuilt("Crystal Chamber") ->
                           SetTiles(built, {c \in water : TileIs(built, c, FLOOR)}, WATER)
                    [] n = HandBuilt("Lost City of Aethermoor") ->
                           SetTiles(built, {c \in chests : TileIs(built, c, FLOOR)}, CHEST)
                    [] OTHER -> built
        RECURSIVE placed(_, _)
        placed(L, directions) ==
            IF directions = {} THEN L
            ELSE LET d == CHOOSE d \in directions : TRUE IN
                 placed(place_exit_tile(L, ExitTile(d)), directions \ {d})
    IN placed(filled, DOMAIN InitialExits[n])

\* the rooms whose grids the specification of the tiles follows, and which the
\* player leaves in it: the Lost City and the generated rooms
TileFrom == {HandBuilt("Lost City of Aethermoor")} \cup (DOMAIN rooms \ DOMAIN InitialExits)

TilesInit ==
    /\ rooms = create_initial_rooms
    /\ room_id_counter = InitialRoomId
    /\ discovered_exits = NoExits
    /\ last_call = NoCall
    /\ gen_log = <<>>
    /\ op = "init"
    /\ player = "None"
    /\ state = "NAME_INPUT"
    /\ last_load = NoLoad
    /\ layout = NoLayout
    /\ npc = NoNPC
    /\ \E D \in TileSeeds \cup {[a |-> 0, b |-> -1, c |-> -1, d |-> -1]} :
           grids = [n \in TileFrom |-> InitialGrid(n, D)]
    /\ EnemyAbsent

\* discover_new_room with the grids: a generated room is constructed (layout is
\* its grid as constructed), stored under its name, and place_exit_tile is
\* called for current_room, the object fetched before the store, and for new_room
DiscoverTiles ==
    /\ \E from_room \in TileFrom, direction \in Directions,
          rtype \in {"cave", "village"}, pick \in PickChoices, D \in TileSeeds :
            /\ IsDiscovered(from_room, direction) \/ Generated < MaxTileGen
            /\ discover_new_room(from_room, direction, FALSE, rtype, pick)
            /\ IF IsDiscovered(from_room, direction)
               THEN UNCHANGED room_vars
               ELSE LET new_room == Room(GRID_WIDTH, GRID_HEIGHT, rtype,
                                         [north |-> 3, south |-> 2, west |-> 2, east |-> 3],
                                         [seeds |-> D, path_direction |-> "cross"])
                        current_room == place_exit_tile(grids[from_room], ExitTile(direction))
                    IN /\ layout' = new_room
                       /\ grids' = Put([grids EXCEPT ![from_room] = current_room],
                                       last_call'.result,
                                       place_exit_tile(new_room, EntryTile(direction)))
    /\ UNCHANGED enemy_vars
    /\ UNCHANGED game_vars
    /\ UNCHANGED npc

SpecTiles == TilesInit /\ [][DiscoverTiles]_vars

----------------------------------------------------------------------------
(* src/main.py: the NPC dataclass, and the calls src/test_npc_system.py makes on it *)

NPC_COLOR == <<150, 0, 150>>

\* the __init__ the dataclass generates: a keyword that is no field, or a missing
\* required field, raises TypeError; the other fields take their defaults
NPC(kwargs) ==
    LET fields == {"name", "rect", "dialogue_options", "color", "quest_giver", "quest_id",
                   "shop_items"}
        defaults == [color |-> NPC_COLOR, quest_giver |-> FALSE, quest_id |-> "None",
                     shop_items |-> <<>>]
    IN  IF /\ DOMAIN kwargs \subseteq fields
           /\ {"name", "rect", "dialogue_options"} \subseteq DOMAIN kwargs
        THEN [raised |-> "", obj |-> kwargs @@ defaults]
        ELSE [raised |-> "TypeError", obj |-> <<>>]

\* NPC.to_dict; the shops of the NPCs built here are empty
NPC_to_dict(obj) ==
    [name |-> obj.name,
     rect |-> [x |-> obj.rect.x, y |-> obj.rect.y, width |-> obj.rect.w, height |-> obj.rect.h],
     dialogue_options |-> obj.dialogue_options,
     color |-> obj.color,
     quest_giver |-> obj.quest_giver,
     quest_id |-> obj.quest_id,
     shop_items |-> [i \in DOMAIN obj.shop_items |-> obj.shop_items[i]]]

\* NPC.from_dict
NPC_from_dict(data) ==
    NPC([name |-> data.name,
         rect |-> Rect(data.rect.x, data.rect.y, data.rect.width, data.rect.height),
         dialogue_options |-> data.dialogue_options,
         color |-> IF "color" \in DOMAIN data THEN data.color ELSE NPC_COLOR,
         quest_giver |-> IF "quest_giver" \in DOMAIN data THEN data.quest_giver ELSE FALSE,
         quest_id |-> IF "quest_id" \in DOMAIN data THEN data.quest_id ELSE "None",
         shop_items |-> IF "shop_items" \in DOMAIN data THEN data.shop_items ELSE <<>>])

\* NPC(name=..., rect=..., dialogue_options=...), as Game.add_procedural_npc builds it, or
\* with the personality and current_mood keywords of test_npc_system.py:32-38
CreateNPC ==
    /\ npc.step = "none"
    /\ \E base \in [name : {"Cave Hermit", "Test NPC"},
                     rect : {Rect(100, 100, TILE_SIZE, TILE_SIZE), Rect(0, 0, TILE_SIZE, TILE_SIZE)},
                     dialogue_options : {<<"Hello!", "How are you?", "Goodbye!">>}],
          giver \in {<<>>, [quest_giver |-> TRUE]},
          personality \in {<<>>} \cup {[personality |-> v] :
                                          v \in {"FRIENDLY", "GRUFF", "MYSTERIOUS", "SCHOLARLY"}},
          mood \in {<<>>} \cup {[current_mood |-> v] :
                                   v \in {"CONTENT", "ANGRY", "CURIOUS", "EXCITED"}} :
            LET kwargs == base @@ giver @@ personality @@ mood
                made == NPC(kwargs)
            IN  npc' = [step |-> "built", args |-> kwargs, raised |-> made.raised,
                        obj |-> made.obj, restored |-> <<>>]
    /\ op' = "npc"
    /\ UNCHANGED <<rooms, room_id_counter, discovered_exits, last_call, gen_log>>
    /\ UNCHANGED enemy_vars
    /\ UNCHANGED game_vars
    /\ UNCHANGED room_vars

\* npc.modify_relationship(10) (test_npc_system.py:51): the class has no such attribute
ModifyRelationship ==
    /\ npc.step = "built"
    /\ npc.raised = ""
    /\ npc' = [npc EXCEPT !.step = "modified",
                          !.raised = IF "modify_relationship" \in DOMAIN npc.obj
                                     THEN "" ELSE "AttributeError"]
    /\ op' = "npc"
    /\ UNCHANGED <<rooms, room_id_counter, discovered_exits, last_call, gen_log>>
    /\ UNCHANGED enemy_vars
    /\ UNCHANGED game_vars
    /\ UNCHANGED room_vars

\* NPC.from_dict(npc.to_dict()) (test_npc_system.py:55-59)
RoundTrip ==
    /\ npc.step = "built"
    /\ npc.raised = ""
    /\ LET made == NPC_from_dict(NPC_to_dict(npc.obj))
       IN  npc' = [npc EXCEPT !.step = "restored", !.raised = made.raised,
                              !.restored = made.obj]
    /\ op' = "npc"
    /\ UNCHANGED <<rooms, room_id_counter, discovered_exits, last_call, gen_log>>
    /\ UNCHANGED enemy_vars
    /\ UNCHANGED game_vars
    /\ UNCHANGED room_vars

SpecNPC == Init /\ [][CreateNPC \/ ModifyRelationship \/ RoundTrip]_vars

----------------------------------------------------------------------------
(* Specifications of the enemy *)

\* top-left corners: centre 100 units from the player's centre (east, and a 60-80-100
\* triangle), in attack range, beyond the aggro range, and on the player's centre
Corners == {<<484, 284>>, <<324, 204>>, <<404, 284>>, <<584, 284>>, <<384, 284>>}
\* a wall block east of the first corner, and none
WallChoices == {{}, {Rect(520, 250, TILE_SIZE, 100)}}
HealthChoices == {12}

EnemyInit == WorldInit /\ EnemySpawned(EnemyTypes, Corners, HealthChoices, WallChoices)

NextEnemy == EnemyUpdateBehavior \/ EnemyUpdateMovement \/ PlayerHits

SpecEnemy == EnemyInit /\ [][NextEnemy]_vars

\* SpecGoblin: the enemies that attack, in the open, never hit; every tick that can run
\* does run, up to MaxChase ticks
FarCorners == {<<484, 284>>, <<324, 204>>}
NearCorners == {<<404, 284>>}

GoblinInit ==
    WorldInit /\ EnemySpawned({"GOBLIN", "SKELETON"}, FarCorners \cup NearCorners,
                              HealthChoices, {{}})

GoblinUpdateBehavior == UpdateBehaviorStep(MaxChase)

NextGoblin == GoblinUpdateBehavior \/ EnemyUpdateMovement

SpecGoblin ==
    /\ GoblinInit
    /\ [][NextGoblin]_vars
    /\ WF_vars(GoblinUpdateBehavior)
    /\ WF_vars(EnemyUpdateMovement)

\* SpecLurk: Spiders spawned with their centre 150 units from the player's centre (east,
\* and a 90-120-150 triangle), 149 and 200 units east, and in attack range
LurkCorners == {<<534, 284>>, <<474, 404>>, <<533, 284>>, <<584, 284>>, <<404, 284>>}

LurkInit == WorldInit /\ EnemySpawned({"SPIDER"}, LurkCorners, HealthChoices, WallChoices)

SpecLurk == LurkInit /\ [][NextEnemy]_vars

\* Enemy.from_dict; direction is the outcome of random.choice in Enemy.__init__
Enemy_from_dict(data, direction) ==
    LET EnemyType == <<"SLIME", "SKELETON", "GOBLIN", "BAT", "SPIDER">>
        EnemyBehavior == <<"IDLE", "PATROL", "AGGRESSIVE", "LURK", "FLEE">>
        e == NewEnemy(EnemyType[data.enemy_type],
                      Rect(data.rect.x, data.rect.y, data.rect.width, data.rect.height),
                      IF "health" \in DOMAIN data THEN data.health ELSE 10,
                      direction)
    IN  [e EXCEPT !.max_health = IF "max_health" \in DOMAIN data THEN data.max_health
                                 ELSE e.health,
                  !.behavior = IF "behavior" \in DOMAIN data THEN EnemyBehavior[data.behavior]
                               ELSE e.behavior]

\* SpecSlide: enemies restored from a save, one of each type and an idle Slime, between
\* wall blocks that touch their rectangle: below, right and at the lower right corner of
\* it (in the way of a move toward the player), above and left of it (in the way of a
\* flight); a Spider 200 units
\* from the player and a Goblin in attack range stand in the open, the idle Slime
\* faces the block right of it
SlideInit ==
    /\ WorldInit
    /\ \E saved \in {<<1, 2, 324, 204>>, <<2, 3, 324, 204>>, <<3, 3, 324, 204>>,
                      <<4, 2, 324, 204>>, <<5, 4, 324, 204>>, <<1, 1, 324, 204>>,
                      <<5, 4, 584, 284>>, <<3, 3, 404, 284>>} :
        \E direction \in {<<1, 0>>} :
            LET below == Rect(300, 236, 100, 10)
                right == Rect(356, 180, 10, 100)
                above == Rect(300, 194, 100, 10)
                left == Rect(314, 180, 10, 100)
                corner == Rect(356, 236, 10, 10)
            IN  /\ enemy = Enemy_from_dict(
                              [enemy_type |-> saved[1],
                               rect |-> [x |-> saved[3], y |-> saved[4],
                                         width |-> TILE_SIZE, height |-> TILE_SIZE],
                               health |-> 12, max_health |-> 12, behavior |-> saved[2]],
                              direction)
                /\ walls \in (IF saved[2] = 1 THEN {{right}}
                              ELSE IF saved[3] = 324
                              THEN {{}, {below}, {right}, {below, right}, {corner},
                                    {above}, {above, left}}
                              ELSE {{}})
    /\ in_room = TRUE
    /\ player_rect = PlayerRect
    /\ player_health = PlayerStartHealth
    /\ attacking = FALSE
    /\ phase = "behavior"
    /\ tick = 0
    /\ hits = 0
    /\ since_flee = -1
    /\ overridden = FALSE

SlideUpdateBehavior == UpdateBehaviorStep(MaxSlide)

SpecSlide == SlideInit /\ [][SlideUpdateBehavior \/ EnemyUpdateMovement \/ PlayerHits]_vars

----------------------------------------------------------------------------
(* The claims *)

\* the table of spec.md 3
TableDamage(enemy_type) ==
    CASE enemy_type = "SLIME" -> 5
      [] enemy_type = "SKELETON" -> 8
      [] enemy_type = "GOBLIN" -> 10
      [] enemy_type = "BAT" -> 3
      [] enemy_type = "SPIDER" -> 7

TableBehavior(enemy_type) ==
    CASE enemy_type = "SLIME" -> "PATROL"
      [] enemy_type = "SKELETON" -> "AGGRESSIVE"
      [] enemy_type = "GOBLIN" -> "AGGRESSIVE"
      [] enemy_type = "BAT" -> "PATROL"
      [] enemy_type = "SPIDER" -> "LURK"

IsDiscoverStep == op' = "discover"
IsGeneratingStep == room_id_counter' # room_id_counter
IsMovementStep == phase = "movement" /\ phase' = "behavior"

\* C1: every entry (room, direction) -> (target, opposite) of discovered_exits has
\* target.exits[opposite] naming room, and discovered_exits holds the reverse entry.
C1_DiscoveredExitsBidirectional ==
    \A k \in DOMAIN discovered_exits :
        LET target == discovered_exits[k][1]
            back == discovered_exits[k][2]
        IN  /\ target \in DOMAIN rooms
            /\ back \in DOMAIN rooms[target].exits
            /\ rooms[target].exits[back][1] = k[1]
            /\ <<target, back>> \in DOMAIN discovered_exits
            /\ discovered_exits[<<target, back>>] = k

\* C2: a discover_new_room call with the arguments of the call just before it returns
\* the same target and changes neither room_id_counter, rooms nor discovered_exits.
C2_Idempotent ==
    [][(op = "discover" /\ IsDiscoverStep
            /\ last_call'.from = last_call.from /\ last_call'.dir = last_call.dir)
        => /\ last_call'.result = last_call.result
           /\ room_id_counter' = room_id_counter
           /\ rooms' = rooms
           /\ discovered_exits' = discovered_exits]_vars

\* the start room's north was discovered once (a room was generated) and asked for again
C2_SecondCall ==
    /\ op = "discover"
    /\ last_call.from = StartRoom
    /\ last_call.dir = "north"
    /\ ~last_call.generated
    /\ last_call.result \in DOMAIN rooms
    /\ last_call.result[2] # NoSuffix

\* C3: after discover_new_room(A, d) generated B, the call discover_new_room(B, opposite(d))
\* returns A and generates nothing: rooms and room_id_counter are unchanged.
C3_ReturnsToSource ==
    [][(op = "discover" /\ last_call.generated /\ IsDiscoverStep
            /\ last_call'.from = last_call.result
            /\ last_call'.dir = opposite_directions[last_call.dir])
        => /\ last_call'.result = last_call.from
           /\ ~last_call'.generated
           /\ rooms' = rooms
           /\ room_id_counter' = room_id_counter]_vars

\* the call back south from a room generated north of the start room
C3_WentBack ==
    /\ op = "discover"
    /\ ~last_call.generated
    /\ last_call.from[2] # NoSuffix
    /\ last_call.dir = "south"
    /\ last_call.result = StartRoom
    /\ rooms[StartRoom].exits["north"][1] = last_call.from

\* C4: every exit R.exits[d] leads to an existing room whose exits[opposite(d)] names R.
C4_ExitsReciprocal ==
    \A n \in DOMAIN rooms :
        \A d \in DOMAIN rooms[n].exits :
            LET target == rooms[n].exits[d][1]
                back == opposite_directions[d]
            IN  /\ target \in DOMAIN rooms
                /\ back \in DOMAIN rooms[target].exits
                /\ rooms[target].exits[back][1] = n

\* C5: a generating discover_new_room call names the room with a name that is not yet a
\* key of rooms, adds exactly one key and keeps every room stored before under its name.
C5_AppendOnly ==
    [][IsGeneratingStep
        => /\ last_call'.result \notin DOMAIN rooms
           /\ Cardinality(DOMAIN rooms') = Cardinality(DOMAIN rooms) + 1
           /\ \A n \in DOMAIN rooms :
                /\ n \in DOMAIN rooms'
                /\ rooms'[n].room_type = rooms[n].room_type
                /\ rooms'[n].difficulty_level = rooms[n].difficulty_level
                /\ \A d \in DOMAIN rooms[n].exits : d \in DOMAIN rooms'[n].exits]_vars

\* since_flee counts the ticks finished since take_damage switched the enemy to FLEE
C6_InFlee == (since_flee >= 0 /\ since_flee <= 59) \/ (since_flee = 60 /\ phase = "behavior")
C6_AtEnd == (since_flee = 60 /\ phase = "movement") \/ (since_flee = 61 /\ phase = "behavior")

\* C6 as claimed: after take_damage switched to FLEE and with no further damage, the
\* enemy is in FLEE through the next 60 ticks and has its default behaviour on tick 61.
C6_FleeSixtyTicks ==
    /\ C6_InFlee => enemy.behavior = "FLEE"
    /\ C6_AtEnd => enemy.behavior = TableBehavior(enemy.enemy_type)

\* C6 as amended: the same, as long as the stuck branch of update_behavior
\* (stuck_counter > 10, which forces PATROL) did not run in those ticks.
C6_FleeSixtyTicksUnlessStuck == ~overridden => C6_FleeSixtyTicks

\* tick 61 of a flight that was not overridden is over
C6_FleeEnded ==
    /\ since_flee = 61
    /\ phase = "behavior"
    /\ ~overridden
    /\ in_room
    /\ enemy.behavior = TableBehavior(enemy.enemy_type)
    /\ enemy.state_timer = 0

\* a freshly spawned Goblin whose centre is 100 units from the player's centre
C7_GoblinStarted ==
    /\ tick = 0
    /\ phase = "behavior"
    /\ enemy.enemy_type = "GOBLIN"
    /\ DistSq(Center(enemy.rect), Center(player_rect)) = 10000

\* the tick just taken was an attack tick
C7_AttackTick == attacking /\ enemy.attack_cooldown = 30 /\ phase = "behavior"

C7_AttackRule ==
    [][IsMovementStep
        => IF /\ enemy.behavior = "AGGRESSIVE"
              /\ DistSq(Center(enemy.rect), Center(player_rect)) <= 900
              /\ enemy.attack_cooldown <= 1
           THEN attacking' /\ enemy'.attack_cooldown = 30 /\ enemy'.rect = enemy.rect
           ELSE ~attacking']_vars

C7_GoblinReaches == C7_GoblinStarted ~> C7_AttackTick

\* C7: update_movement returns True exactly when the enemy is AGGRESSIVE, within 30 units
\* of the player and its cooldown, decremented, is <= 0; it then sets the cooldown to 30
\* and does not move.  A Goblin started 100 units from the player eventually attacks.
C7_AttackAndReach == C7_AttackRule /\ C7_GoblinReaches

\* a Goblin that started 100 units away has just attacked
C7_GoblinAttacked ==
    /\ enemy.enemy_type = "GOBLIN"
    /\ attacking
    /\ enemy.attack_cooldown = 30
    /\ enemy.rect.x # 404
    /\ DistSq(Center(enemy.rect), Center(player_rect)) <= 900
    /\ phase = "behavior"

\* C8: a tick whose update_movement reports an attack lowers the player's health by the
\* enemy's base damage (spec.md 3), and no other step changes the player's health.
C8_AttackDamage ==
    [][/\ (IsMovementStep /\ attacking')
            => player_health' = player_health - TableDamage(enemy.enemy_type)
       /\ player_health' # player_health => (IsMovementStep /\ attacking')]_vars

\* a Goblin's attack took 10 from the player's 100
C8_GoblinHit ==
    /\ enemy.enemy_type = "GOBLIN"
    /\ attacking
    /\ phase = "behavior"
    /\ player_health = 90

\* C9: an enemy in its Room has health > 0, and no enemy's health is negative.
C9_HealthPositiveOrRemoved ==
    /\ in_room => enemy.health > 0
    /\ enemy.health >= 0

\* C10: the rooms are generated with non-decreasing difficulty, and no room's
\* difficulty_level exceeds 10.
C10_DifficultyMonotoneCapped ==
    /\ \A i \in 1..(Len(gen_log) - 1) : gen_log[i] <= gen_log[i + 1]
    /\ \A n \in DOMAIN rooms : rooms[n].difficulty_level <= 10

\* rooms were generated at difficulty 1 and at difficulty 10, and revisits took the
\* start room to 10
C10_CapReached ==
    /\ Len(gen_log) >= 2
    /\ gen_log[1] = 1
    /\ gen_log[Len(gen_log)] = 10
    /\ gen_log[Len(gen_log) - 1] = 10
    /\ rooms[StartRoom].difficulty_level = 10
    /\ rooms[StartRoom].visited
    /\ op = "visit"

\* C11: room_id_counter is 1000 plus the number of rooms generated, and the room whose
\* id is the counter value c has difficulty min(10, 1 + (c - 1000) div 5); the i-th
\* generated room has the id 1000 + i - 1.
C11_DifficultyById ==
    /\ room_id_counter = InitialRoomId + Len(gen_log)
    /\ \A i \in 1..Len(gen_log) :
            gen_log[i] = Min(MaxDifficulty, 1 + ((InitialRoomId + i - 1) - InitialRoomId) \div DifficultyStep)


IsHitStep == hits' = hits + 1
IsBehaviorStep == phase = "behavior" /\ phase' = "movement"

\* C12: the behaviour turns to FLEE only in a take_damage call that leaves the health
\* below half of max_health, and that call sets state_timer to 60; no update_behavior or
\* update_movement call turns a behaviour to FLEE, and an enemy in FLEE has (health never
\* rising) a health below half of max_health.
C12_FleeOnlyFromDamage ==
    [][/\ (enemy.behavior # "FLEE" /\ enemy'.behavior = "FLEE")
            => (IsHitStep /\ 2 * enemy'.health < enemy'.max_health /\ enemy'.state_timer = 60)
       /\ (IsHitStep /\ since_flee' = 0)
            => (enemy'.behavior = "FLEE" /\ enemy'.state_timer = 60
                /\ 2 * enemy'.health < enemy'.max_health)
       /\ enemy'.behavior = "FLEE" => 2 * enemy'.health < enemy'.max_health]_vars

\* a hit of 7 on a health of 12 switched the enemy to FLEE
C12_Fled ==
    /\ hits = 1
    /\ in_room
    /\ enemy.health = 5
    /\ enemy.behavior = "FLEE"
    /\ enemy.state_timer = 60
    /\ since_flee = 0

\* C13: update_behavior on an enemy in LURK with stuck_counter <= 10 makes it AGGRESSIVE
\* when its centre is less than 150 units from the player's, and leaves it in LURK at 150
\* units or more.
C13_LurkToAggressive ==
    [][(IsBehaviorStep /\ enemy.behavior = "LURK" /\ enemy.stuck_counter <= 10)
        => IF DistSq(Center(enemy.rect), Center(player_rect)) < 22500
           THEN enemy'.behavior = "AGGRESSIVE"
           ELSE enemy'.behavior = "LURK"]_vars

\* the Spider spawned 149 units east has turned AGGRESSIVE in its first update_behavior
C13_SpiderNoticed ==
    /\ enemy.enemy_type = "SPIDER"
    /\ enemy.rect.x = 533
    /\ tick = 0
    /\ phase = "movement"
    /\ enemy.behavior = "AGGRESSIVE"

C15_LoadFailResetsWorld ==
    [][(op' = "load" /\ last_load'.kind \in CorruptKinds)
        => /\ last_load'.result = FALSE
           /\ rooms' = create_initial_rooms
           /\ player' = "None"
           /\ state' = "NAME_INPUT"
           /\ room_id_counter' = InitialRoomId
           /\ discovered_exits' = NoExits]_vars

\* C16: every write a biome generator makes to the grid targets a cell <<x, y>>
\* with 0 <= x < width and 0 <= y < height, for every room size: a constructed
\* Room has used no negative and no past-the-end index for a write.
C16_WritesInBounds == layout.made => ~layout.oob

\* C17: constructing a Room never fails: for every biome tag, every room size
\* and every outcome of the random choices generate_procedural_layout completes
\* without raising.
C17_ConstructionNeverRaises == layout.made => layout.raised = ""

\* the tile is EXIT and every tile of the grid around it is FLOOR or EXIT
Carved(L, tile) ==
    /\ TileIs(L, tile, EXIT)
    /\ \A c \in {Shift(tile, o) : o \in (-1 .. 1) \X (-1 .. 1)} :
           Inside(L, c, 0) => (TileIs(L, c, FLOOR) \/ TileIs(L, c, EXIT))

\* C18: after discover_new_room(r, d) generates target t, the tile of r at the
\* coordinates stored in t.exits[opposite(d)] and the tile of t at the
\* coordinates stored in r.exits[d] are both EXIT, and every in-bounds tile of
\* the 3x3 neighbourhood of each is FLOOR or EXIT.
C18_ExitTilesCarved ==
    last_call.generated =>
        LET r == last_call.from
            t == last_call.result
            d == last_call.dir
            back == rooms[t].exits[opposite_directions[d]]
            forth == rooms[r].exits[d]
        IN /\ Carved(grids[r], <<back[2], back[3]>>)
           /\ Carved(grids[t], <<forth[2], forth[3]>>)

\* a generated room whose entry tile had a WALL, WATER or CHEST tile next to it
\* when it was constructed
C18_EntryCleared ==
    /\ last_call.generated
    /\ \E c \in {Shift(EntryTile(last_call.dir), o) : o \in (-1 .. 1) \X (-1 .. 1)} :
           /\ layout.grid[c] \in {WALL, WATER, CHEST}
           /\ TileIs(grids[last_call.result], c, FLOOR)

\* the EXIT tiles of one edge of the grid
ExitCount(L, direction) ==
    Cardinality({c \in DOMAIN L.grid :
                    /\ L.grid[c] = EXIT
                    /\ CASE direction = "north" -> c[2] = 0
                         [] direction = "south" -> c[2] = L.h - 1
                         [] direction = "west" -> c[1] = 0
                         [] direction = "east" -> c[1] = L.w - 1})

\* C19: when Room construction finishes, each of the four edges carries between
\* 2 and 3 EXIT tiles, and the tiles add_potential_exits reserved are still EXIT
\* after the biome generator has run.
C19_ReservedExitsKept ==
    (layout.made /\ layout.raised = "")
        => /\ \A direction \in Directions :
                  ExitCount(layout, direction) >= 2 /\ ExitCount(layout, direction) <= 3
           /\ \A c \in layout.reserved : layout.grid[c] = EXIT

\* the roads 3 tiles wide inside the lines the central path paved: three
\* consecutive rows across the interior, three consecutive columns, or both
VillageRoads(L) ==
    LET across == {(2 .. L.w - 3) \X (y .. y + 2) :
                      y \in {VillagePathAt(L)[2] - 2, VillagePathAt(L)[2] - 1}}
        down == {(x .. x + 2) \X (2 .. L.h - 3) :
                    x \in {VillagePathAt(L)[1] - 2, VillagePathAt(L)[1] - 1}}
    IN CASE L.path_direction = "horizontal" -> across
         [] L.path_direction = "vertical" -> down
         [] OTHER -> {r[1] \cup r[2] : r \in down \X across}

\* a village room of 37x25 tiles has been constructed
VillageBuilt ==
    /\ layout.made /\ layout.raised = "" /\ layout.room_type = "village"
    /\ layout.w = GRID_WIDTH /\ layout.h = GRID_HEIGHT

\* C20: a village room of 37x25 tiles has, when generate_village_features
\* returns, a road 3 tiles wide (horizontal, vertical or cross-shaped, as the
\* generator chose) across the interior every tile of which is FLOOR.
C20_RoadIsFloor ==
    VillageBuilt => \E road \in VillageRoads(layout) : \A c \in road : layout.grid[c] = FLOOR

\* C21: a newly constructed Enemy has the speed, damage and behaviour of its type:
\* Slime (1, 5, PATROL), Skeleton (2, 8, AGGRESSIVE), Goblin (3, 10, AGGRESSIVE),
\* Bat (4, 3, PATROL), Spider (2, 7, LURK); speed and damage never change under
\* take_damage, update_behavior and update_movement.
C21_StatsFixedByType ==
    /\ enemy.speed = (CASE enemy.enemy_type = "SLIME" -> 1
                        [] enemy.enemy_type = "SKELETON" -> 2
                        [] enemy.enemy_type = "GOBLIN" -> 3
                        [] enemy.enemy_type = "BAT" -> 4
                        [] enemy.enemy_type = "SPIDER" -> 2)
    /\ enemy.damage = TableDamage(enemy.enemy_type)
    /\ (tick = 0 /\ hits = 0 /\ phase = "behavior")
            => enemy.behavior = TableBehavior(enemy.enemy_type)

\* a Bat that was hit, changed its behaviour and moved still has speed 4 and damage 3
C21_BatAfterCalls ==
    /\ enemy.enemy_type = "BAT"
    /\ hits = 1
    /\ tick >= 3
    /\ in_room
    /\ enemy.behavior = "FLEE"
    /\ enemy.rect # Rect(484, 284, TILE_SIZE, TILE_SIZE)
    /\ enemy.speed = 4
    /\ enemy.damage = 3

\* C22: for an NPC built with any personality and mood, and after any
\* modify_relationship call, NPC.from_dict(npc.to_dict()) has the same name, the same
\* personality, the same current mood and the same relationship level as npc.
C22_NpcRoundTrips ==
    (npc.step # "none" /\ "personality" \in DOMAIN npc.args /\ "current_mood" \in DOMAIN npc.args)
        => /\ npc.raised = ""
           /\ npc.step = "restored"
                => \A a \in {"name", "personality", "current_mood", "relationship_level"} :
                       /\ a \in DOMAIN npc.obj
                       /\ a \in DOMAIN npc.restored
                       /\ npc.restored[a] = npc.obj[a]

\* the rectangle after trying the move (mx, my) as a whole, then its horizontal part,
\* then its vertical part, against the walls
SlidTo(mx, my) ==
    IF ~wall_check_func(walls, Move(enemy.rect, mx, my)) THEN Move(enemy.rect, mx, my)
    ELSE IF ~wall_check_func(walls, Move(enemy.rect, mx, 0)) THEN Move(enemy.rect, mx, 0)
    ELSE IF ~wall_check_func(walls, Move(enemy.rect, 0, my)) THEN Move(enemy.rect, 0, my)
    ELSE enemy.rect

\* C23: in PATROL farther than 10 units from the target point, and in AGGRESSIVE farther
\* than 30 units from the player, update_movement applies the full-vector move if the
\* wall predicate accepts it, else the horizontal-only move, else the vertical-only
\* move, else leaves the rect unchanged: one move per tick at most.
C23_SlidingMove ==
    [][IsMovementStep
        => LET tx == enemy.target_position[1] - enemy.rect.x
               ty == enemy.target_position[2] - enemy.rect.y
               px == Center(player_rect)[1] - Center(enemy.rect)[1]
               py == Center(player_rect)[2] - Center(enemy.rect)[2]
           IN  /\ (/\ enemy.behavior = "PATROL"
                   /\ enemy.patrol_points # <<>>
                   /\ tx * tx + ty * ty > 100)
                    => enemy'.rect = SlidTo(ScaledStep(tx, tx * tx + ty * ty, enemy.speed),
                                            ScaledStep(ty, tx * tx + ty * ty, enemy.speed))
               /\ (enemy.behavior = "AGGRESSIVE" /\ px * px + py * py > 900)
                    => enemy'.rect = SlidTo(ScaledStep(px, px * px + py * py, enemy.speed),
                                            ScaledStep(py, px * px + py * py, enemy.speed))]_vars

\* a Goblin with a wall block at its lower right corner, in the way of the full move
\* only, has taken the horizontal move
C23_GoblinSlidEast ==
    /\ enemy.enemy_type = "GOBLIN"
    /\ enemy.behavior = "AGGRESSIVE"
    /\ hits = 0
    /\ walls = {Rect(356, 236, 10, 10)}
    /\ enemy.rect = Rect(324 + 1, 204, TILE_SIZE, TILE_SIZE)
    /\ tick = 1

\* C24: in FLEE, update_movement applies the same sliding policy: when the wall predicate
\* rejects the full-vector move away from the player, the enemy takes the
\* horizontal-only move, else the vertical-only move.
C24_FleeSlides ==
    [][(IsMovementStep /\ enemy.behavior = "FLEE")
        => LET ax == Center(enemy.rect)[1] - Center(player_rect)[1]
               ay == Center(enemy.rect)[2] - Center(player_rect)[2]
           IN  enemy'.rect = SlidTo(ScaledStep(ax, ax * ax + ay * ay, enemy.speed),
                                    ScaledStep(ay, ax * ax + ay * ay, enemy.speed))]_vars

\* C26: an enemy whose rect is clear of the walls stays clear of them under any sequence
\* of update_behavior, update_movement and take_damage calls, in every behaviour; a LURK
\* tick and an attack tick leave the rect unchanged.
C26_NeverInWalls ==
    /\ [](~wall_check_func(walls, enemy.rect))
    /\ [][(IsMovementStep /\ (enemy.behavior = "LURK" \/ attacking'))
            => enemy'.rect = enemy.rect]_vars

\* a Skeleton between a wall below and a wall right of it has stood still for five ticks
C26_HeldByWalls ==
    /\ enemy.enemy_type = "SKELETON"
    /\ enemy.behavior = "AGGRESSIVE"
    /\ walls = {Rect(300, 236, 100, 10), Rect(356, 180, 10, 100)}
    /\ enemy.rect = Rect(324, 204, TILE_SIZE, TILE_SIZE)
    /\ enemy.stuck_counter = 5
    /\ tick = 5

\* a timer after one update_movement call that only counts it down
CountedDown(timer) == IF timer > 0 THEN timer - 1 ELSE 0

\* what C25 says of the three timers but the attack cooldown, of is_hit and of the
\* animation frame: tick is the number of update_movement calls made
C25_OtherTimers ==
    /\ [](/\ enemy.attack_cooldown >= 0
          /\ enemy.state_timer >= 0
          /\ enemy.hit_animation_timer >= 0
          /\ enemy.animation_frame = (tick \div 8) % 4)
    /\ [][IsMovementStep
            => /\ enemy'.state_timer = CountedDown(enemy.state_timer)
               /\ enemy'.hit_animation_timer = CountedDown(enemy.hit_animation_timer)
               /\ enemy.hit_animation_timer = 0 => ~enemy'.is_hit]_vars

\* C25 as claimed: in every behaviour each update_movement call lowers attack_cooldown,
\* state_timer and hit_animation_timer by exactly 1 when positive and leaves them at 0
\* otherwise, none is ever negative, is_hit is cleared by a call that finds
\* hit_animation_timer at 0, and animation_frame stays in 0..3 and advances once every
\* 8 calls.
C25_TimersTickDown ==
    /\ C25_OtherTimers
    /\ [][IsMovementStep
            => enemy'.attack_cooldown = CountedDown(enemy.attack_cooldown)]_vars

\* C25 as amended: the same, but a call that reports an attack leaves attack_cooldown
\* at 30.
C25_TimersTickDownOrAttack ==
    /\ C25_OtherTimers
    /\ [][IsMovementStep
            => enemy'.attack_cooldown = IF attacking' THEN 30
                                        ELSE CountedDown(enemy.attack_cooldown)]_vars

\* a Goblin attacked on its first tick, was hit into FLEE before its second, and
\* eleven more calls counted its timers down and advanced its animation frame
C25_TimersRan ==
    /\ enemy.enemy_type = "GOBLIN"
    /\ hits = 1
    /\ tick = 12
    /\ phase = "behavior"
    /\ enemy.attack_cooldown = 30 - 11
    /\ enemy.state_timer = 60 - 11
    /\ enemy.hit_animation_timer = 0
    /\ ~enemy.is_hit
    /\ enemy.animation_frame = 1

\* the enemy is AGGRESSIVE with its centre within 30 units of the player's
C27_InReach ==
    /\ enemy.behavior = "AGGRESSIVE"
    /\ DistSq(Center(enemy.rect), Center(player_rect)) <= 900

\* C27 as claimed: an AGGRESSIVE enemy within 30 units of a stationary player that
\* takes no damage stays AGGRESSIVE on every tick and reports an attack on every tick
\* that finds its cooldown run out, that is on every 30th tick after its first attack;
\* standing still while it waits never changes its behaviour.
C27_KeepsAttacking ==
    [][(C27_InReach /\ ~IsHitStep)
        => /\ enemy'.behavior = "AGGRESSIVE"
           /\ IsMovementStep
                => /\ attacking' = (enemy.attack_cooldown <= 1)
                   /\ enemy'.rect = enemy.rect]_vars

\* what holds instead: the same on every update_movement call and on every
\* update_behavior call that finds stuck_counter <= 10; the update_behavior call that
\* finds stuck_counter > 10 turns the waiting enemy to PATROL, which happens before its
\* cooldown has run out a second time
C27_AttacksUntilStuck ==
    /\ [][(C27_InReach /\ ~IsHitStep)
            => /\ enemy'.behavior = IF IsBehaviorStep /\ enemy.stuck_counter > 10
                                    THEN "PATROL" ELSE "AGGRESSIVE"
               /\ IsMovementStep
                    => /\ attacking' = (enemy.attack_cooldown <= 1)
                       /\ enemy'.rect = enemy.rect]_vars
    /\ []((C27_InReach /\ enemy.is_attacking /\ phase = "behavior")
            => (enemy.stuck_counter <= 11 /\ enemy.attack_cooldown + enemy.stuck_counter >= 30))

\* the Goblin spawned in reach attacked on its first tick, stood still for eleven, and
\* has been turned to PATROL with nineteen ticks of its cooldown left
C27_GoblinGaveUp ==
    /\ enemy.enemy_type = "GOBLIN"
    /\ enemy.rect = Rect(404, 284, TILE_SIZE, TILE_SIZE)
    /\ enemy.behavior = "PATROL"
    /\ tick = 11
    /\ phase = "movement"
    /\ enemy.attack_cooldown = 30 - 10
    /\ player_health = 100 - 10

\* the enemy is in LURK with its centre 150 units or more from the player's
C28_Hidden ==
    /\ enemy.behavior = "LURK"
    /\ DistSq(Center(enemy.rect), Center(player_rect)) >= 22500

\* C28 as claimed: a LURK enemy that takes no damage, 150 units or more from the
\* player, is in LURK at the same position after every update_behavior and every
\* update_movement call, for any number of ticks.
C28_LurkStays ==
    [][(C28_Hidden /\ ~IsHitStep)
        => (enemy'.behavior = "LURK" /\ enemy'.rect = enemy.rect)]_vars

\* what holds instead: the same, but for the update_behavior call that finds
\* stuck_counter > 10 (the twelfth tick of an enemy that never moved), which turns it to
\* PATROL; an enemy leaves LURK only by that call, by a call with the player within 150
\* units, or by take_damage
C28_LurkStaysUntilStuck ==
    [][/\ (C28_Hidden /\ ~IsHitStep)
            => /\ enemy'.rect = enemy.rect
               /\ enemy'.behavior = IF IsBehaviorStep /\ enemy.stuck_counter > 10
                                    THEN "PATROL" ELSE "LURK"
       /\ (enemy.behavior = "LURK" /\ enemy'.behavior # "LURK")
            => \/ IsHitStep
               \/ IsBehaviorStep /\ enemy.stuck_counter > 10
               \/ IsBehaviorStep
                    /\ DistSq(Center(enemy.rect), Center(player_rect)) < 22500]_vars

\* the Spider spawned 200 units from the player lurked for eleven ticks and has been
\* turned to PATROL where it stood
C28_SpiderGaveUp ==
    /\ enemy.enemy_type = "SPIDER"
    /\ enemy.rect = Rect(584, 284, TILE_SIZE, TILE_SIZE)
    /\ hits = 0
    /\ enemy.behavior = "PATROL"
    /\ tick = 11
    /\ phase = "movement"

\* C29: in every state reached by discover_new_room calls and load_game calls
\* (successful or failed), every key (room, direction) of discovered_exits names a room
\* of rooms, its target is a room of rooms, and rooms[room].exits[direction] exists and
\* names that target: a transition that gets a memoized target can read the source
\* room's exit and enter an existing room.
C29_DiscoveredExitsResolve ==
    \A k \in DOMAIN discovered_exits :
        LET target == discovered_exits[k][1] IN
        /\ k[1] \in DOMAIN rooms
        /\ target \in DOMAIN rooms
        /\ k[2] \in DOMAIN rooms[k[1]].exits
        /\ rooms[k[1]].exits[k[2]][1] = target

\* C30: for every room R and direction d with R.exits[d] present, R's grid has an EXIT
\* tile on its d edge within one tile of the edge centre, the only place where
\* check_room_transitions accepts direction d: after discovering room B from room A the
\* player standing in B can return to A.
C30_ExitsWalkable ==
    \A n \in DOMAIN grids :
        \A d \in DOMAIN rooms[n].exits :
            \E c \in DOMAIN grids[n].grid :
                /\ TileIs(grids[n], c, EXIT)
                /\ CASE d = "north" -> c[2] = 0 /\ Abs(c[1] - GRID_WIDTH \div 2) <= 1
                     [] d = "south" -> c[2] = grids[n].h - 1 /\ Abs(c[1] - GRID_WIDTH \div 2) <= 1
                     [] d = "west" -> c[1] = 0 /\ Abs(c[2] - GRID_HEIGHT \div 2) <= 1
                     [] d = "east" -> c[1] = grids[n].w - 1 /\ Abs(c[2] - GRID_HEIGHT \div 2) <= 1

====
